---- MODULE Spec2Model ----
(***************************************************************************)
(* Topic-evolution engine (threadlike): the Orchestrator's tick, the       *)
(* TopicUpdater, ClusterMatcher, ClusterSmoother and EmergenceDetector,    *)
(* over the InMemoryStorage adapter.                                       *)
(*                                                                         *)
(* Numbers.  Python floats are modelled as exact rationals <<n, d>> in     *)
(* lowest terms with d > 0 (rounding error is not modelled).  A vector is  *)
(* a sequence of rationals.  Python's None is the empty tuple <<>> where    *)
(* the value is a vector, a number or an id, and "" where it is a string.  *)
(*                                                                         *)
(* Objects.  InMemoryStorage hands out the objects it stores: load_topic   *)
(* and list_states return the stored Topic / ClusterState themselves, so   *)
(* an in-place mutation by the updater or the smoother is a mutation of    *)
(* storage.  The model therefore mutates topics[t] and the entries of      *)
(* cluster_state directly.                                                 *)
(***************************************************************************)
EXTENDS Integers, Sequences, FiniteSets, TLC

\* ------------------------------------------------------------------ bounds
MaxTicks == 2         \* ticks the driver starts in Spec
MaxFeed == 3          \* hits one tick's search returns at most
MaxSnaps == 2         \* snapshots one clusterer call returns at most
MaxElapse == 1        \* times the clock is advanced by ElapseStep

\* ------------------------------------------------------------- rationals
RECURSIVE GCD(_, _)
GCD(a, b) == IF b = 0 THEN a ELSE GCD(b, a % b)

Abs(x) == IF x < 0 THEN -x ELSE x

Rat(n, d) ==
    LET g == GCD(Abs(n), Abs(d))
        s == IF d < 0 THEN -1 ELSE 1
    IN  <<(s * n) \div g, (s * d) \div g>>

Zero == <<0, 1>>
One == <<1, 1>>
Half == <<1, 2>>

RAdd(a, b) == Rat(a[1] * b[2] + b[1] * a[2], a[2] * b[2])
RSub(a, b) == Rat(a[1] * b[2] - b[1] * a[2], a[2] * b[2])
RMul(a, b) == Rat(a[1] * b[1], a[2] * b[2])
RDiv(a, b) == Rat(a[1] * b[2], a[2] * b[1])
RLe(a, b) == a[1] * b[2] <= b[1] * a[2]
RLt(a, b) == a[1] * b[2] < b[1] * a[2]
RGe(a, b) == RLe(b, a)
RGt(a, b) == RLt(b, a)
RSign(a) == IF a[1] > 0 THEN 1 ELSE IF a[1] < 0 THEN -1 ELSE 0

Min(a, b) == IF a <= b THEN a ELSE b

\* ---------------------------------------------------------- math_helpers
\* dot(a, b) = sum(x * y for x, y in zip(a, b)); zip stops at the shorter.
RECURSIVE dotUpTo(_, _, _)
dotUpTo(a, b, n) ==
    IF n = 0 THEN Zero ELSE RAdd(dotUpTo(a, b, n - 1), RMul(a[n], b[n]))

dot(a, b) == dotUpTo(a, b, Min(Len(a), Len(b)))

\* cos(a, b) = dot(a, b) / (norm(a) * norm(b)), norm(x) = sqrt(max(1e-12,
\* dot(x, x))).  The square root is not rational, so the cosine is carried
\* as cos * |cos|, a strictly increasing function of it: every comparison
\* the code makes between cosines, or of a cosine with a threshold, is
\* made on these values (the threshold squared the same way).  The clamp
\* acts only on a vector with dot(x, x) < 1e-12; the vectors of this model
\* have dot(x, x) = 0 or dot(x, x) >= 1/1024, and for the zero vector the
\* numerator is 0, so the quotient is 0 whatever the clamp.
cos(a, b) ==
    LET d == dot(a, b)
    IN  IF d[1] = 0 THEN Zero
        ELSE RMul(<<RSign(d), 1>>, RDiv(RMul(d, d), RMul(dot(a, a), dot(b, b))))

\* The signed square of a threshold, for comparison with cos.
Sq(x) == RMul(<<RSign(x), 1>>, RMul(x, x))

\* An update that adds the new point with weight 1 (a variant the
\* properties must tell from the real one).
incremental_mean_unit(c_prev, W_prev, e, w) ==
    IF c_prev = <<>> \/ RLe(W_prev, Zero)
    THEN <<e, w>>
    ELSE LET W == RAdd(W_prev, w)
         IN  <<[i \in 1..Min(Len(c_prev), Len(e)) |->
                  RDiv(RAdd(RMul(c_prev[i], W_prev), e[i]), W)], W>>

\* weighted_incremental_mean(c_prev, W_prev, e, w) -> (c_new, W)
weighted_incremental_mean(c_prev, W_prev, e, w) ==
    IF c_prev = <<>> \/ RLe(W_prev, Zero)
    THEN <<e, w>>
    ELSE LET W == RAdd(W_prev, w)
         IN  <<[i \in 1..Min(Len(c_prev), Len(e)) |->
                  RDiv(RAdd(RMul(c_prev[i], W_prev), RMul(e[i], w)), W)], W>>

\* wmean(vecs, weights) -> (mean_vec, W): acc and W are accumulated pair by
\* pair and acc is divided by max(W, 1e-12).  Every weight of this model is
\* a multiple of 1/2, so W > 0 is W >= 1e-12.
RECURSIVE WAcc(_, _)
WAcc(vecs, weights) ==
    IF vecs = <<>> \/ weights = <<>> THEN <<>>
    ELSE LET n == Min(Len(vecs), Len(weights))
             before == WAcc(SubSeq(vecs, 1, n - 1), SubSeq(weights, 1, n - 1))
         IN  [k \in 1..Len(vecs[1]) |->
                 RAdd(IF before = <<>> THEN Zero ELSE before[k],
                      RMul(vecs[n][k], weights[n]))]

RECURSIVE WSum(_)
WSum(weights) ==
    IF weights = <<>> THEN Zero
    ELSE RAdd(WSum(SubSeq(weights, 1, Len(weights) - 1)), weights[Len(weights)])

wmean(vecs, weights) ==
    LET W == WSum(SubSeq(weights, 1, Min(Len(vecs), Len(weights))))
        acc == WAcc(vecs, weights)
    IN  <<[k \in 1..Len(vecs[1]) |->
              IF RGt(W, Zero) THEN RDiv(acc[k], W) ELSE Zero], W>>

\* ema_update_vec(v_ema, v_now, beta)
ema_update_vec(v_ema, v_now, beta) ==
    IF v_ema = <<>>
    THEN v_now
    ELSE [i \in 1..Min(Len(v_ema), Len(v_now)) |->
            RAdd(RMul(RSub(One, beta), v_ema[i]), RMul(beta, v_now[i]))]

\* ------------------------------------------------------------ constants
WindowDays == 30          \* Orchestrator(window_days=30)
K_keep == 20              \* Orchestrator(K_keep=20)
RecentLimit == 500        \* recent_docs(..., limit=500)
SecondsPerDay == 86400
ExpireMaxAgeDays == 90    \* expire_stale(..., max_age_days=90)
tau_match == <<2, 5>>     \* ClusterMatcher(tau_match=0.4)
DefaultAuthority == Half  \* p.get("authority", 0.5)
DefaultSampleWeight == One

\* The clock advances in steps of the expiry age.
ElapseStep == ExpireMaxAgeDays * SecondsPerDay

\* ------------------------------------------------------------------ ids
\* Topic ids are tuples: a root is <<name>>; the uuid4 of a promoted child
\* is <<parent name, tick number, snapshot index>>, fresh by construction.
\* A document's uuid4 is <<topic name, tick number, position in the batch>>
\* and a candidate's cand_<hex8> key is <<"cand", topic name, tick number,
\* snapshot index>>: distinct calls get distinct ids, as uuid4 gives.
RootA == <<"A">>
RootB == <<"B">>
Roots == {RootA, RootB}
Procs == {"p1", "p2"}

\* ------------------------------------------------------------- policies
\* TopicPolicy objects.  A Topic holds a reference to its policy object
\* (the field policy is the object's identity); promote hands the parent's
\* object to the child.
PolicyObj(ref) ==
    IF ref[1] = "persistence_min"
    THEN [m_min |-> 2, tau_cohesion |-> Half, tau_separation |-> <<7, 10>>,
          persistence_min |-> ref[2], ema_beta_cluster |-> Half]
    ELSE IF ref = RootA
    THEN [m_min |-> 2, tau_cohesion |-> Half, tau_separation |-> <<7, 10>>,
          persistence_min |-> 2, ema_beta_cluster |-> Half]
    ELSE [m_min |-> 2, tau_cohesion |-> Half, tau_separation |-> <<7, 10>>,
          persistence_min |-> 2, ema_beta_cluster |-> <<1, 4>>]

\* NegativeRules objects, held by reference like the policies: Neg(t) is
\* the object NegativeRules() built for the root t.
Neg(t) == <<"NegativeRules", t>>
NegativeObj(ref) ==
    [block_terms |-> <<>>, block_domains |-> <<>>, block_types |-> <<>>]

\* The policy and rules objects that exist, by identity, and what a holder
\* of a topic reads and writes through topic.policy and topic.negative.
Heap ==
    [policy |-> [ref \in Roots |-> PolicyObj(ref)],
     negative |-> [ref \in {Neg(t) : t \in Roots} |-> NegativeObj(ref)]]
PolicyOf(heap, topic) == heap.policy[topic.policy]
NegativeOf(heap, topic) == heap.negative[topic.negative]
\* topic.policy.m_min = v
SetMMin(heap, topic, v) == [heap EXCEPT !.policy[topic.policy].m_min = v]
\* topic.negative.block_terms.append(term)
BlockTerm(heap, topic, term) ==
    [heap EXCEPT !.negative[topic.negative].block_terms = Append(@, term)]

\* ClusterSmoother(beta=...): one smoother per engine.
SmootherBeta == Half

\* --------------------------------------------------------------- inputs
\* Pages as the fetcher returns them; "" and <<>> stand for an absent key.
PX1 == [url |-> "u1", text |-> "alpha", hash |-> "", vec |-> <<One, Zero>>,
        authority |-> <<>>, ts |-> <<>>]
PX2 == [url |-> "u2", text |-> "alpha", hash |-> "", vec |-> <<One, Zero>>,
        authority |-> <<>>, ts |-> <<>>]
PX3 == [url |-> "u3", text |-> "alpha", hash |-> "", vec |-> <<One, Zero>>,
        authority |-> <<>>, ts |-> <<>>]
PY == [url |-> "u4", text |-> "beta", hash |-> "", vec |-> <<Zero, One>>,
       authority |-> One, ts |-> <<>>]
\* A page without the key "text"; KeyAbsent stands for the absent key.
KeyAbsent == "KeyAbsent"
PNoText == [url |-> "u6", text |-> KeyAbsent, hash |-> "", vec |-> <<One, Zero>>,
            authority |-> <<>>, ts |-> <<>>]
\* The text of PX1 with a capital letter.
PXU == [url |-> "u5", text |-> "Alpha", hash |-> "", vec |-> <<One, Zero>>,
        authority |-> <<>>, ts |-> <<>>]

\* What planner + searcher + fetcher + embedder deliver in one tick.
FeedMenu ==
    {<<>>, <<PX1, PY>>, <<PX1, PX2, PX3>>, <<PY, PX1, PX2, PY>>}

Feeds == {f \in FeedMenu : Len(f) <= MaxFeed}

\* str(hash(text)): one value per text within a process.
PyHash(text) ==
    IF text = "alpha" THEN "h_alpha"
    ELSE IF text = "Alpha" THEN "h_Alpha"
    ELSE IF text = "beta" THEN "h_beta" ELSE "h_other"

\* str.lower() on the texts of this model.
Lower(text) == IF text = "Alpha" THEN "alpha" ELSE text

\* Snapshots as a clusterer returns them (size and doc_ids are filled in
\* from the window).  SQ qualifies; SN is near SQ; SF is SQ without
\* cohesion; SO is orthogonal to SQ.
SQ == [cluster_id |-> "C0", centroid_now |-> <<One, Zero>>,
       cohesion_now |-> One, separation_now |-> One]
SN == [cluster_id |-> "C1", centroid_now |-> <<One, One>>,
       cohesion_now |-> One, separation_now |-> One]
SF == [cluster_id |-> "C0", centroid_now |-> <<One, Zero>>,
       cohesion_now |-> Zero, separation_now |-> One]
SO == [cluster_id |-> "C1", centroid_now |-> <<Zero, One>>,
       cohesion_now |-> One, separation_now |-> One]
SnapMenu == {SQ, SN, SF, SO}

RECURSIVE SeqsUpTo(_, _)
SeqsUpTo(S, n) ==
    IF n = 0 THEN {<<>>}
    ELSE LET shorter == SeqsUpTo(S, n - 1)
         IN  shorter \cup {Append(q, x) : q \in shorter, x \in S}

SnapLists == SeqsUpTo(SnapMenu, MaxSnaps)

\* ---------------------------------------------------------------- state
VARIABLES
    topics,         \* InMemoryStorage.topics: id -> Topic
    docs_by_topic,  \* InMemoryStorage.docs_by_topic: id -> list of Doc
    seen_hashes,    \* InMemoryStorage.seen_hashes: id -> set of hashes
    cluster_state,  \* InMemoryStorage.cluster_state: the dict, in insertion
                    \* order, as a sequence of [tid, st]
    clock,          \* time.time()
    proc,           \* per driver thread: where its tick stands, its locals
    summary,        \* per driver thread: what its last tick returned/raised
    driver,         \* per driver thread: ticks left to start, topics it runs,
                    \* and (history) the feeds its ticks were given
    tick_count,     \* per topic: ticks started so far (numbers the uuids)
    streak,         \* history: per live candidate, the number of consecutive
                    \* ticks, up to the last completed one, it qualified in
    observer        \* Observer: tick, observations; and (history) the calls
                    \* made and how the last one ended

vars == <<topics, docs_by_topic, seen_hashes, cluster_state, clock, proc,
          summary, driver, tick_count, streak, observer>>

\* The state as one record, so that the handlers are functions on it.
World ==
    [topics |-> topics, docs_by_topic |-> docs_by_topic,
     seen_hashes |-> seen_hashes, cluster_state |-> cluster_state,
     clock |-> clock, proc |-> proc, summary |-> summary, driver |-> driver,
     tick_count |-> tick_count, streak |-> streak, observer |-> observer]

\* Observer(storage): tick = 0, observations = [].
NewObserver ==
    [tick |-> 0, observations |-> <<>>, calls |-> 0, status |-> ""]

Becomes(W) ==
    /\ topics' = W.topics
    /\ docs_by_topic' = W.docs_by_topic
    /\ seen_hashes' = W.seen_hashes
    /\ cluster_state' = W.cluster_state
    /\ clock' = W.clock
    /\ proc' = W.proc
    /\ summary' = W.summary
    /\ driver' = W.driver
    /\ tick_count' = W.tick_count
    /\ streak' = W.streak
    /\ observer' = W.observer

\* ------------------------------------------------------- InMemoryStorage
Upsert(f, k, v) == [x \in DOMAIN f \cup {k} |-> IF x = k THEN v ELSE f[x]]
SetDefault(f, k, v) == IF k \in DOMAIN f THEN f ELSE Upsert(f, k, v)
Get(f, k, default) == IF k \in DOMAIN f THEN f[k] ELSE default

save_topic(W, topic) ==
    [W EXCEPT !.topics = Upsert(W.topics, topic.id, topic),
              !.docs_by_topic = SetDefault(W.docs_by_topic, topic.id, <<>>),
              !.seen_hashes = SetDefault(W.seen_hashes, topic.id, {})]

\* A storage that drops the documents (a variant the properties must tell
\* from the real one).
save_docs_dropped(W, tid, docs) == W

\* A storage that refuses a document whose hash the log already holds (a
\* variant the properties must tell from the real one).
save_docs_unique(W, tid, docs) ==
    LET log == Get(W.docs_by_topic, tid, <<>>)
        held == {log[i].hash : i \in 1..Len(log)}
    IN  [W EXCEPT !.docs_by_topic =
            Upsert(W.docs_by_topic, tid,
                   log \o SelectSeq(docs, LAMBDA d : d.hash \notin held))]

save_docs(W, tid, docs) ==
    [W EXCEPT !.docs_by_topic =
        Upsert(W.docs_by_topic, tid, Get(W.docs_by_topic, tid, <<>>) \o docs)]

\* A storage that keeps the hashes of the last batch only (a variant the
\* properties must tell from the real one).
mark_seen_latest(W, tid, hashes) ==
    [W EXCEPT !.seen_hashes = Upsert(W.seen_hashes, tid, hashes)]

\* A storage with one set of hashes for all topics (a variant the
\* properties must tell from the real one).
mark_seen_everywhere(W, tid, hashes) ==
    [W EXCEPT !.seen_hashes =
        [u \in DOMAIN W.seen_hashes \cup {tid} |->
            Get(W.seen_hashes, u, {}) \cup hashes]]

mark_seen_hashes(W, tid, hashes) ==
    [W EXCEPT !.seen_hashes =
        Upsert(W.seen_hashes, tid, Get(W.seen_hashes, tid, {}) \cup hashes)]

seen(W, tid) == Get(W.seen_hashes, tid, {})

\* sorted(arr, key=ts, reverse=True): stable, so equal ts keep their order.
RECURSIVE InsertByTs(_, _)
InsertByTs(sorted, d) ==
    IF sorted = <<>> THEN <<d>>
    ELSE IF d.ts > sorted[Len(sorted)].ts
         THEN Append(InsertByTs(SubSeq(sorted, 1, Len(sorted) - 1), d),
                     sorted[Len(sorted)])
         ELSE Append(sorted, d)

RECURSIVE SortByTsDesc(_)
SortByTsDesc(arr) ==
    IF arr = <<>> THEN <<>>
    ELSE InsertByTs(SortByTsDesc(SubSeq(arr, 1, Len(arr) - 1)), arr[Len(arr)])

\* recent_docs ignores window_days: it sorts the whole log and cuts it.
recent_docs(W, tid, window_days, limit) ==
    LET arr == SortByTsDesc(Get(W.docs_by_topic, tid, <<>>))
    IN  SubSeq(arr, 1, Min(limit, Len(arr)))

HasState(W, tid, cid) ==
    \E i \in 1..Len(W.cluster_state) :
        W.cluster_state[i].tid = tid /\ W.cluster_state[i].st.cluster_id = cid

load_cluster_state(W, tid, cid) ==
    LET i == CHOOSE i \in 1..Len(W.cluster_state) :
                 W.cluster_state[i].tid = tid
                 /\ W.cluster_state[i].st.cluster_id = cid
    IN  W.cluster_state[i].st

save_cluster_state(W, tid, state) ==
    [W EXCEPT !.cluster_state =
        IF HasState(W, tid, state.cluster_id)
        THEN [i \in 1..Len(W.cluster_state) |->
                 IF W.cluster_state[i].tid = tid
                    /\ W.cluster_state[i].st.cluster_id = state.cluster_id
                 THEN [tid |-> tid, st |-> state]
                 ELSE W.cluster_state[i]]
        ELSE Append(W.cluster_state, [tid |-> tid, st |-> state])]

IsKey(e, tid, cid) == e.tid = tid /\ e.st.cluster_id = cid

RECURSIVE Without(_, _, _)
Without(entries, tid, cid) ==
    IF entries = <<>> THEN <<>>
    ELSE LET rest == Without(Tail(entries), tid, cid)
         IN  IF IsKey(Head(entries), tid, cid) THEN rest
             ELSE <<Head(entries)>> \o rest

\* A delete that takes every state of the topic with it (a variant the
\* properties must tell from the real one).
delete_states_of_topic(W, tid, cid) ==
    [W EXCEPT !.cluster_state = SelectSeq(W.cluster_state,
                                          LAMBDA e : e.tid # tid)]

delete_cluster_state(W, tid, cid) ==
    [W EXCEPT !.cluster_state = Without(W.cluster_state, tid, cid)]

\* -------------------------------------------------------- ClusterMatcher
\* list_states: the states stored under topic_id, in dict order.
RECURSIVE StatesOf(_, _)
StatesOf(entries, tid) ==
    IF entries = <<>> THEN <<>>
    ELSE IF Head(entries).tid = tid
         THEN <<Head(entries).st>> \o StatesOf(Tail(entries), tid)
         ELSE StatesOf(Tail(entries), tid)

\* A matcher that looks at the states of every topic (a variant the
\* properties must tell from the real one).
AllStates(W, topic_id) ==
    [j \in 1..Len(W.cluster_state) |-> W.cluster_state[j].st]

list_states(W, topic_id) == StatesOf(W.cluster_state, topic_id)

\* The loop of match_or_create: best is an index into states (0 is None),
\* best_sim starts at -1.0 and a state replaces the best only when its
\* cosine is strictly greater.
\* A loop that lets a later state with an equal cosine replace the best (a
\* variant the properties must tell from the real one).
RECURSIVE BestFromLast(_, _, _, _, _)
BestFromLast(states, snap, i, best, best_sim) ==
    IF i > Len(states) THEN <<best, best_sim>>
    ELSE IF states[i].centroid_ema = <<>>
         THEN BestFromLast(states, snap, i + 1, best, best_sim)
         ELSE LET s == cos(snap.centroid_now, states[i].centroid_ema)
              IN  IF RGe(s, best_sim)
                  THEN BestFromLast(states, snap, i + 1, i, s)
                  ELSE BestFromLast(states, snap, i + 1, best, best_sim)

\* A loop that takes a state without a centroid for a perfect match (a
\* variant the properties must tell from the real one).
RECURSIVE BestFromNull(_, _, _, _, _)
BestFromNull(states, snap, i, best, best_sim) ==
    IF i > Len(states) THEN <<best, best_sim>>
    ELSE LET s == IF states[i].centroid_ema = <<>> THEN One
                  ELSE cos(snap.centroid_now, states[i].centroid_ema)
         IN  IF RGt(s, best_sim)
             THEN BestFromNull(states, snap, i + 1, i, s)
             ELSE BestFromNull(states, snap, i + 1, best, best_sim)

RECURSIVE BestFrom(_, _, _, _, _)
BestFrom(states, snap, i, best, best_sim) ==
    IF i > Len(states) THEN <<best, best_sim>>
    ELSE IF states[i].centroid_ema = <<>>
         THEN BestFrom(states, snap, i + 1, best, best_sim)
         ELSE LET s == cos(snap.centroid_now, states[i].centroid_ema)
              IN  IF RGt(s, best_sim)
                  THEN BestFrom(states, snap, i + 1, i, s)
                  ELSE BestFrom(states, snap, i + 1, best, best_sim)

\* ClusterState(cluster_id=new_key): the dataclass defaults.
NewClusterState(new_key, now) ==
    [cluster_id |-> new_key, centroid_ema |-> <<>>, cohesion_ema |-> Zero,
     separation_ema |-> Zero, persistence |-> 0, last_seen_ts |-> now]

\* A matcher that stamps and saves the state it matched (a variant the
\* properties must tell from the real one).
match_and_touch(tau, W, topic, snap, new_key) ==
    LET states == list_states(W, topic.id)
        found == BestFrom(states, snap, 1, 0, <<-1, 1>>)
    IN  IF found[1] # 0 /\ RGe(found[2], Sq(tau))
        THEN LET st == [states[found[1]] EXCEPT !.last_seen_ts = W.clock]
             IN  <<save_cluster_state(W, topic.id, st), st>>
        ELSE LET st == NewClusterState(new_key, W.clock)
             IN  <<save_cluster_state(W, topic.id, st), st>>

\* match_or_create of a ClusterMatcher(tau_match=tau)
\*   -> <<storage afterwards, the state returned>>
match_or_create_at(tau, W, topic, snap, new_key) ==
    LET states == list_states(W, topic.id)
        found == BestFrom(states, snap, 1, 0, <<-1, 1>>)
    IN  IF found[1] # 0 /\ RGe(found[2], Sq(tau))
        THEN <<W, states[found[1]]>>
        ELSE LET st == NewClusterState(new_key, W.clock)
             IN  <<save_cluster_state(W, topic.id, st), st>>

\* The engine's matcher is ClusterMatcher(): tau_match = 0.4.
match_or_create(W, topic, snap, new_key) ==
    match_or_create_at(tau_match, W, topic, snap, new_key)

\* An expiry that spares the states exactly as old as the bound (a variant
\* the properties must tell from the real one).
RECURSIVE DeleteStaleStrict(_, _, _, _, _)
DeleteStaleStrict(W, topic_id, states, now, max_age_seconds) ==
    IF states = <<>> THEN W
    ELSE LET st == Head(states)
             W1 == IF now - st.last_seen_ts > max_age_seconds
                   THEN delete_cluster_state(W, topic_id, st.cluster_id)
                   ELSE W
         IN  DeleteStaleStrict(W1, topic_id, Tail(states), now, max_age_seconds)

RECURSIVE DeleteStale(_, _, _, _, _)
DeleteStale(W, topic_id, states, now, max_age_seconds) ==
    IF states = <<>> THEN W
    ELSE LET st == Head(states)
             W1 == IF now - st.last_seen_ts >= max_age_seconds
                   THEN delete_cluster_state(W, topic_id, st.cluster_id)
                   ELSE W
         IN  DeleteStale(W1, topic_id, Tail(states), now, max_age_seconds)

\* An expiry that deletes nothing (a variant the properties must tell from
\* the real one).
expire_never(W, topic_id, max_age_days) == W

expire_stale(W, topic_id, max_age_days) ==
    DeleteStale(W, topic_id, list_states(W, topic_id), W.clock,
                max_age_days * SecondsPerDay)

\* ------------------------------------------------------- ClusterSmoother
meets(policy, snap, state) ==
    /\ snap.size >= policy.m_min
    /\ RGe(state.cohesion_ema, policy.tau_cohesion)
    /\ RLe(RSub(One, state.separation_ema), policy.tau_separation)

\* A smoother that forgets to reset (a variant the properties must tell
\* from the real one).
NextPersistenceKeep(persistence, ok) ==
    IF ok THEN persistence + 1 ELSE persistence

NextPersistence(persistence, ok) == IF ok THEN persistence + 1 ELSE 0

\* A smoother that resets the time of the state to the epoch (a variant
\* the properties must tell from the real one).
smoothed_unstamped(beta, topic, snap, state, now) ==
    [state EXCEPT
       !.centroid_ema =
           ema_update_vec(state.centroid_ema, snap.centroid_now, beta),
       !.persistence = 0,
       !.last_seen_ts = 0]

\* A smoother that seeds the scalar averages of a new state with the first
\* observation (a variant the properties must tell from the real one).
smoothed_seeded(beta, topic, snap, state, now) ==
    LET first == state.centroid_ema = <<>>
        ema == [state EXCEPT
                  !.centroid_ema =
                      ema_update_vec(state.centroid_ema, snap.centroid_now, beta),
                  !.cohesion_ema =
                      IF first THEN snap.cohesion_now
                      ELSE RAdd(RMul(RSub(One, beta), state.cohesion_ema),
                                RMul(beta, snap.cohesion_now)),
                  !.separation_ema =
                      IF first THEN snap.separation_now
                      ELSE RAdd(RMul(RSub(One, beta), state.separation_ema),
                                RMul(beta, snap.separation_now))]
    IN  [ema EXCEPT
           !.persistence =
               NextPersistence(state.persistence,
                               meets(PolicyObj(topic.policy), snap, ema)),
           !.last_seen_ts = now]

\* update: the state after smoothing; the caller saves it.
smoothed(beta, topic, snap, state, now) ==
    LET ema == [state EXCEPT
                  !.centroid_ema =
                      ema_update_vec(state.centroid_ema, snap.centroid_now, beta),
                  !.cohesion_ema =
                      RAdd(RMul(RSub(One, beta), state.cohesion_ema),
                           RMul(beta, snap.cohesion_now)),
                  !.separation_ema =
                      RAdd(RMul(RSub(One, beta), state.separation_ema),
                           RMul(beta, snap.separation_now))]
    IN  [ema EXCEPT
           !.persistence =
               NextPersistence(state.persistence,
                               meets(PolicyObj(topic.policy), snap, ema)),
           !.last_seen_ts = now]

\* ----------------------------------------------------- EmergenceDetector
\* A check whose cohesion bound is exclusive (a variant the properties
\* must tell from the real one).
explain_strict(topic, snap, state) ==
    LET policy == PolicyObj(topic.policy)
    IN  [mass_ok |-> snap.size >= policy.m_min,
         cohesion_ok |-> RGt(state.cohesion_ema, policy.tau_cohesion),
         separation_ok |->
             RLe(RSub(One, state.separation_ema), policy.tau_separation),
         persistence_ok |-> state.persistence >= policy.persistence_min]

explain(topic, snap, state) ==
    LET policy == PolicyObj(topic.policy)
    IN  [mass_ok |-> snap.size >= policy.m_min,
         cohesion_ok |-> RGe(state.cohesion_ema, policy.tau_cohesion),
         separation_ok |->
             RLe(RSub(One, state.separation_ema), policy.tau_separation),
         persistence_ok |-> state.persistence >= policy.persistence_min]

\* A check that looks at the mass and the persistence only (a variant the
\* properties must tell from the real one).
ready_on_persistence(topic, snap, state) ==
    LET chk == explain(topic, snap, state)
    IN  chk.mass_ok /\ chk.persistence_ok

ready(topic, snap, state) ==
    LET chk == explain(topic, snap, state)
    IN  chk.mass_ok /\ chk.cohesion_ok /\ chk.separation_ok /\ chk.persistence_ok

\* SimpleNamer.name_and_seeds.  Every text of this model is one word of
\* three letters or more that is no stop word, so the words are the texts
\* in lower case; freq keeps them in the order of their first occurrence, the sort
\* by count is stable, and the three most frequent are the seeds.
RECURSIVE WordsOf(_)
WordsOf(docs) ==
    IF docs = <<>> THEN <<>>
    ELSE LET before == WordsOf(SubSeq(docs, 1, Len(docs) - 1))
             w == Lower(docs[Len(docs)].text)
         IN  IF \E i \in 1..Len(before) : before[i] = w
             THEN before ELSE Append(before, w)

Freq(docs, w) == Cardinality({i \in 1..Len(docs) : Lower(docs[i].text) = w})

RECURSIVE InsertByFreq(_, _, _)
InsertByFreq(docs, sorted, w) ==
    IF sorted = <<>> THEN <<w>>
    ELSE IF Freq(docs, w) > Freq(docs, sorted[Len(sorted)])
         THEN Append(InsertByFreq(docs, SubSeq(sorted, 1, Len(sorted) - 1), w),
                     sorted[Len(sorted)])
         ELSE Append(sorted, w)

RECURSIVE SortByFreqDesc(_, _)
SortByFreqDesc(docs, words) ==
    IF words = <<>> THEN <<>>
    ELSE InsertByFreq(docs,
                      SortByFreqDesc(docs, SubSeq(words, 1, Len(words) - 1)),
                      words[Len(words)])

SeedsKept == 3

\* The name is "Topic: " + ", ".join(seeds), here the pair of the prefix
\* and what is joined.
name_and_seeds(cluster_docs) ==
    LET ranked == SortByFreqDesc(cluster_docs, WordsOf(cluster_docs))
        seeds == SubSeq(ranked, 1, Min(SeedsKept, Len(ranked)))
    IN  IF seeds = <<>> THEN <<<<"Topic: ", <<"emergent">>>>, <<"emergent">>>>
        ELSE <<<<"Topic: ", seeds>>, seeds>>

\* A promotion that gives the child its parent's centroid (a variant the
\* properties must tell from the real one).
promote_inheriting(parent, snap, cluster_docs, new_id, now) ==
    LET named == name_and_seeds(cluster_docs)
    IN  [id |-> new_id, name |-> named[1], seeds |-> named[2],
         negative |-> parent.negative, policy |-> parent.policy,
         centroid_long |-> parent.centroid_long, doc_count |-> snap.size,
         centroid_short_ema |-> <<>>, emerged_from |-> parent.id,
         last_updated_ts |-> now, children |-> <<>>, weight_sum |-> <<>>]

\* Topic(...): weight_sum is no field of the dataclass, so a Topic built by
\* the constructor has no such attribute (<<>>).
promote(parent, snap, cluster_docs, new_id, now) ==
    LET named == name_and_seeds(cluster_docs)
    IN  [id |-> new_id, name |-> named[1], seeds |-> named[2],
         negative |-> parent.negative, policy |-> parent.policy,
         centroid_long |-> snap.centroid_now, doc_count |-> snap.size,
         centroid_short_ema |-> <<>>, emerged_from |-> parent.id,
         last_updated_ts |-> now, children |-> <<>>, weight_sum |-> <<>>]

\* ---------------------------------------------------------- TopicUpdater
\* A weight that halves once the clock has left 0 (a variant the properties
\* must tell from the real one).
time_weight_aging(now_ts, doc_ts) == IF now_ts > 0 THEN Half ELSE One

\* recency_lambda = 0.0 (the default, and what every driver passes): the
\* branch math.exp(...) is not taken.
time_weight(now_ts, doc_ts) == One

\* The fold of apply over docs, on the pair <<centroid_long, weight_sum>>.
RECURSIVE FoldDocs(_, _, _)
FoldDocs(cw, docs, now_ts) ==
    IF docs = <<>> THEN cw
    ELSE LET d == Head(docs)
             w == RMul(d.authority, time_weight(now_ts, d.ts))
         IN  FoldDocs(weighted_incremental_mean(cw[1], cw[2], d.vec, w),
                      Tail(docs), now_ts)

\* An apply that reads topic.weight_sum before its loop (a variant the
\* properties must tell from the real one).
ApplyRaisesEarly(topic, docs) == topic.weight_sum = <<>>

\* apply raises AttributeError at the first document when the topic has no
\* weight_sum attribute, before anything is assigned.
ApplyRaises(topic, docs) == docs # <<>> /\ topic.weight_sum = <<>>

apply(topic, docs, now_ts) ==
    LET cw == FoldDocs(<<topic.centroid_long, topic.weight_sum>>, docs, now_ts)
    IN  [topic EXCEPT !.centroid_long = cw[1], !.weight_sum = cw[2],
                      !.last_updated_ts = now_ts]

\* -------------------------------------------------------------- adapters
\* Orchestrator.tick, "Build docs": one Doc per page, in order.
Assemble(pages, tname, k, now_ts) ==
    [i \in 1..Len(pages) |->
        [id |-> <<tname, k, i>>,
         ts |-> IF pages[i].ts = <<>> THEN now_ts ELSE pages[i].ts[1],
         url |-> pages[i].url,
         text |-> pages[i].text,
         authority |-> IF pages[i].authority = <<>> THEN DefaultAuthority
                       ELSE pages[i].authority,
         vec |-> pages[i].vec,
         hash |-> IF pages[i].hash = "" THEN PyHash(pages[i].text)
                  ELSE pages[i].hash,
         sample_weight |-> DefaultSampleWeight]]

\* PassFilter.apply
filter_apply(negative, docs) == docs

\* SeenDeduper.drop
RECURSIVE DropFrom(_, _, _)
DropFrom(seen_set, seen_in_batch, docs) ==
    IF docs = <<>> THEN <<>>
    ELSE LET d == Head(docs)
         IN  IF d.hash \in seen_set \/ d.hash \in seen_in_batch
             THEN DropFrom(seen_set, seen_in_batch, Tail(docs))
             ELSE <<d>> \o DropFrom(seen_set, seen_in_batch \cup {d.hash},
                                    Tail(docs))

\* A deduper that looks at the hashes of past ticks only (a variant the
\* properties must tell from the real one).
drop_past_only(seen_set, docs) ==
    SelectSeq(docs, LAMBDA d : d.hash \notin seen_set)

drop(seen_set, docs) == DropFrom(seen_set, {}, docs)

\* SimpleRanker: the key is authority when the topic has no centroid, and
\* 0.6 * cos(d.vec, centroid_long) + 0.4 * authority otherwise.  Document
\* vectors of this model have norm 1, so with x = dot(d.vec, c) the key is
\* 0.6 * x / |c| + 0.4 * authority and key(d1) > key(d2) is
\* 3 * (x1 - x2) > 2 * (a2 - a1) * |c|, decided exactly by signs and squares.
KeyGt(c, d1, d2) ==
    IF c = <<>> THEN RGt(d1.authority, d2.authority)
    ELSE LET L == RMul(<<3, 1>>, RSub(dot(d1.vec, c), dot(d2.vec, c)))
             R == RMul(<<2, 1>>, RSub(d2.authority, d1.authority))
             N == dot(c, c)
         IN  IF RSign(R) = 0 THEN RSign(L) > 0
             ELSE IF RSign(R) < 0
                  THEN RSign(L) >= 0 \/ RLt(RMul(L, L), RMul(RMul(R, R), N))
                  ELSE RSign(L) > 0 /\ RGt(RMul(L, L), RMul(RMul(R, R), N))

\* sorted(docs, key=..., reverse=True) is stable: a document moves ahead
\* only of documents with a strictly smaller key.
RECURSIVE InsertByKey(_, _, _)
InsertByKey(c, sorted, d) ==
    IF sorted = <<>> THEN <<d>>
    ELSE IF KeyGt(c, d, sorted[Len(sorted)])
         THEN Append(InsertByKey(c, SubSeq(sorted, 1, Len(sorted) - 1), d),
                     sorted[Len(sorted)])
         ELSE Append(sorted, d)

RECURSIVE SortByKeyDesc(_, _)
SortByKeyDesc(c, docs) ==
    IF docs = <<>> THEN <<>>
    ELSE InsertByKey(c, SortByKeyDesc(c, SubSeq(docs, 1, Len(docs) - 1)),
                     docs[Len(docs)])

select(topic, docs, K) ==
    LET ranked == SortByKeyDesc(topic.centroid_long, docs)
    IN  SubSeq(ranked, 1, Min(K, Len(ranked)))

\* Clusterer.cluster: both clusterers of the repository return [] for an
\* empty window; otherwise the port may return any list of snapshots over
\* the window's documents.
DocIds(docs) == [i \in 1..Len(docs) |-> docs[i].id]

ClusterOutputs(parent, docs_window) ==
    IF docs_window = <<>> THEN {<<>>}
    ELSE {[i \in 1..Len(sl) |->
              [cluster_id |-> sl[i].cluster_id,
               centroid_now |-> sl[i].centroid_now,
               size |-> Len(docs_window),
               cohesion_now |-> sl[i].cohesion_now,
               separation_now |-> sl[i].separation_now,
               doc_ids |-> DocIds(docs_window)]] : sl \in SnapLists}

\* ------------------------------------------------------ Orchestrator.tick
\* One tick is a sequence of steps, one per storage operation or port call
\* that can fail or interleave with another thread's tick; pc names the
\* step the thread takes next.
IdleLocal ==
    [pc |-> "idle", topic |-> <<>>, tick_no |-> 0, now_ts |-> 0,
     topK |-> <<>>, window |-> <<>>, snaps |-> <<>>, i |-> 0,
     state |-> <<>>, promotions |-> <<>>,
     \* history, for the properties only:
     feed |-> <<>>, matched |-> <<>>, qualified |-> {}, start |-> <<>>]

CandKey(t, k, i) == <<"cand", t[1], k, i>>
ChildId(t, k, i) == <<t[1], k, i>>
Hashes(docs) == {docs[i].hash : i \in 1..Len(docs)}

\* What the tick found in storage when it started (history, for the
\* properties only).
StartOf(W, t) ==
    [topic |-> W.topics[t], docs |-> Get(W.docs_by_topic, t, <<>>),
     seen |-> seen(W, t), states |-> list_states(W, t)]

\* What a tick gave its caller: the summary it returned (status "ok") or
\* the exception it raised, with the tick's history (feed, topK, start).
Outcome(loc, status) ==
    [status |-> status,
     ingested |-> IF status = "ok" THEN Len(loc.topK) ELSE 0,
     clusters_observed |-> IF status = "ok" THEN Len(loc.snaps) ELSE 0,
     promotions |-> IF status = "ok" THEN loc.promotions ELSE <<>>,
     topic_id |-> loc.topic, updated_at |-> loc.now_ts,
     feed |-> loc.feed, topK |-> loc.topK, start |-> loc.start[1]]

\* The tick ends by an exception: nothing is returned.
Raise(W, p, error) ==
    [W EXCEPT !.proc[p] = IdleLocal,
              !.summary[p] = <<Outcome(W.proc[p], error)>>]

\* p["text"] of a page without that key raises KeyError (in the argument
\* of embed, orchestrator.py:168).
LacksText(feed) == \E i \in 1..Len(feed) : feed[i].text = KeyAbsent

\* now_ts, load_topic, plan/search/fetch/embed, seen, build docs, filter,
\* dedup, rank.
DoTickStart(W, p, t, feed) ==
    LET k == W.tick_count[t] + 1
        topic == W.topics[t]
        new_docs == Assemble(feed, t[1], k, W.clock)
        filtered == filter_apply(topic.negative, new_docs)
        unique == drop(seen(W, t), filtered)
        topK == select(topic, unique, K_keep)
        begun == [W EXCEPT !.proc[p] = [IdleLocal EXCEPT !.topic = t,
                                          !.tick_no = k, !.now_ts = W.clock,
                                          !.feed = feed,
                                          !.start = <<StartOf(W, t)>>],
                           !.driver[p].left = W.driver[p].left - 1,
                           !.driver[p].fed = Append(W.driver[p].fed, feed),
                           !.tick_count[t] = k]
    IN  IF LacksText(feed)
        THEN Raise(begun, p, "KeyError")
        ELSE [begun EXCEPT !.proc[p].pc = "apply", !.proc[p].topK = topK,
                           !.seen_hashes = SetDefault(W.seen_hashes, t, {})]

\* self.updater.apply(topic, topK, now_ts): topic is the stored object.
DoApply(W, p) ==
    LET loc == W.proc[p]
        topic == W.topics[loc.topic]
    IN  IF ApplyRaises(topic, loc.topK)
        THEN Raise(W, p, "AttributeError")
        ELSE [W EXCEPT !.topics[loc.topic] = apply(topic, loc.topK, loc.now_ts),
                       !.proc[p].pc = "save_docs"]

DoSaveDocs(W, p) ==
    LET loc == W.proc[p]
    IN  [save_docs(W, loc.topic, loc.topK) EXCEPT !.proc[p].pc = "mark_seen"]

DoMarkSeen(W, p) ==
    LET loc == W.proc[p]
    IN  [mark_seen_hashes(W, loc.topic, Hashes(loc.topK))
            EXCEPT !.proc[p].pc = "save_topic"]

DoSaveTopic(W, p) ==
    LET loc == W.proc[p]
    IN  [save_topic(W, W.topics[loc.topic]) EXCEPT !.proc[p].pc = "recent_docs"]

DoRecentDocs(W, p) ==
    LET loc == W.proc[p]
    IN  [W EXCEPT !.proc[p].window =
                      recent_docs(W, loc.topic, WindowDays, RecentLimit),
                  !.proc[p].pc = "cluster"]

\* After the clusterer, and after each snapshot: the next snapshot, or the
\* housekeeping when there is none.
PcAt(snaps, i) == IF i <= Len(snaps) THEN "match" ELSE "expire"

DoCluster(W, p, snaps) ==
    [W EXCEPT !.proc[p].snaps = snaps, !.proc[p].i = 1,
              !.proc[p].pc = PcAt(snaps, 1)]

DoMatch(W, p) ==
    LET loc == W.proc[p]
        r == match_or_create(W, W.topics[loc.topic], loc.snaps[loc.i],
                             CandKey(loc.topic, loc.tick_no, loc.i))
    IN  [r[1] EXCEPT !.proc[p].state = <<r[2]>>, !.proc[p].matched = <<r[2]>>,
                     !.proc[p].pc = "smooth"]

\* ClusterSmoother.update, then the test of emergence.ready.  The state is
\* the stored object (the thread's own copy if it is no longer stored).
update(W, topic, snap, state) ==
    LET st == smoothed(SmootherBeta, topic, snap, state, W.clock)
    IN  <<save_cluster_state(W, topic.id, st), st>>

DoSmooth(W, p) ==
    LET loc == W.proc[p]
        topic == W.topics[loc.topic]
        snap == loc.snaps[loc.i]
        cid == loc.state[1].cluster_id
        state == IF HasState(W, loc.topic, cid)
                 THEN load_cluster_state(W, loc.topic, cid) ELSE loc.state[1]
        r == update(W, topic, snap, state)
        ok == r[2].persistence > 0
    IN  [r[1] EXCEPT
           !.proc[p].state = <<r[2]>>,
           !.proc[p].qualified =
               IF ok THEN loc.qualified \cup {cid} ELSE loc.qualified \ {cid},
           !.proc[p].i = IF ready(topic, snap, r[2]) THEN loc.i ELSE loc.i + 1,
           !.proc[p].pc = IF ready(topic, snap, r[2]) THEN "promote"
                          ELSE PcAt(loc.snaps, loc.i + 1)]

\* cluster_docs, promote, save_topic(child), topic.children.append(child),
\* promotions.append(child).  children holds Topic objects: <<"Topic", id>>
\* is the reference to the object stored under id.
Ref(id) == <<"Topic", id>>

RECURSIVE Materialize(_, _)
Materialize(window_docs, doc_ids) ==
    IF window_docs = <<>> THEN <<>>
    ELSE LET rest == Materialize(Tail(window_docs), doc_ids)
         IN  IF \E j \in 1..Len(doc_ids) : doc_ids[j] = Head(window_docs).id
             THEN <<Head(window_docs)>> \o rest ELSE rest

DoPromote(W, p) ==
    LET loc == W.proc[p]
        topic == W.topics[loc.topic]
        snap == loc.snaps[loc.i]
        cluster_docs == Materialize(loc.window, snap.doc_ids)
        child == promote(topic, snap, cluster_docs,
                         ChildId(loc.topic, loc.tick_no, loc.i), W.clock)
        W1 == save_topic(W, child)
    IN  [W1 EXCEPT
           !.topics[loc.topic].children = Append(topic.children, Ref(child.id)),
           !.proc[p].promotions = Append(loc.promotions, <<child.id, child.name>>),
           !.proc[p].pc = "delete_state"]

DoDeleteState(W, p) ==
    LET loc == W.proc[p]
    IN  [delete_cluster_state(W, loc.topic, loc.state[1].cluster_id) EXCEPT
           !.proc[p].i = loc.i + 1,
           !.proc[p].pc = PcAt(loc.snaps, loc.i + 1)]

\* History: after a completed tick, how many ticks in a row each live
\* candidate of the topic has qualified in.
StreakAfter(W, t, qualified, old) ==
    LET live == {<<t, st.cluster_id>> : st \in
                    {W.cluster_state[j].st :
                        j \in {k \in 1..Len(W.cluster_state) :
                                  W.cluster_state[k].tid = t}}}
        others == {key \in DOMAIN old : key[1] # t}
    IN  [key \in live \cup others |->
            IF key[1] # t THEN old[key]
            ELSE IF key[2] \in qualified THEN Get(old, key, 0) + 1
            ELSE 0]

\* expire_stale and the return of the summary.
DoExpire(W, p) ==
    LET loc == W.proc[p]
        W1 == expire_stale(W, loc.topic, ExpireMaxAgeDays)
    IN  [W1 EXCEPT
           !.streak = StreakAfter(W1, loc.topic, loc.qualified, W.streak),
           !.summary[p] = <<Outcome(loc, "ok")>>,
           !.proc[p] = IdleLocal]

\* ------------------------------------------------------------ the system
\* A root topic as the drivers build it: Topic(id=..., name=..., seeds=...,
\* policy=TopicPolicy()).  weight_sum is <<>> for a Topic that has no such
\* attribute and a number for one that was given it.
Root(t, weight_sum) ==
    [id |-> t, name |-> <<"Topic: ", <<t[1]>>>>, seeds |-> <<"seed">>,
     negative |-> Neg(t),
     policy |-> t, centroid_long |-> <<>>, doc_count |-> 0,
     centroid_short_ema |-> <<>>, emerged_from |-> <<>>,
     last_updated_ts |-> 0, children |-> <<>>, weight_sum |-> weight_sum]

\* After storage.save_topic(root) for each root.
InitWith(drv) ==
    /\ \E wa \in {<<>>, Zero}, wb \in {<<>>, Zero} :
          topics = [t \in Roots |-> Root(t, IF t = RootA THEN wa ELSE wb)]
    /\ docs_by_topic = [t \in Roots |-> <<>>]
    /\ seen_hashes = [t \in Roots |-> {}]
    /\ cluster_state = <<>>
    /\ clock = 0
    /\ proc = [p \in Procs |-> IdleLocal]
    /\ summary = [p \in Procs |-> <<>>]
    /\ driver = drv
    /\ tick_count = [t \in Roots |-> 0]
    /\ streak = [key \in {} |-> 0]
    /\ observer = NewObserver

\* One driver thread runs the ticks of topic A one after the other.
Init ==
    InitWith([p \in Procs |->
                 IF p = "p1" THEN [left |-> MaxTicks, topics |-> {RootA}, fed |-> <<>>]
                 ELSE [left |-> 0, topics |-> {}, fed |-> <<>>]])

\* Two driver threads, one tick each, on different topics.
InitConc ==
    InitWith([p \in Procs |->
                 [left |-> 1, topics |-> IF p = "p1" THEN {RootA} ELSE {RootB},
                  fed |-> <<>>]])

Busy(W, t) == \E q \in Procs : W.proc[q].pc # "idle" /\ W.proc[q].topic = t

\* The driver starts a tick; it never runs two ticks of one topic at once.
CanStart(W, p, t) ==
    /\ W.proc[p].pc = "idle"
    /\ W.driver[p].left > 0
    /\ t \in W.driver[p].topics
    /\ ~Busy(W, t)

TickStart(p) ==
    \E t \in Roots, feed \in Feeds :
        /\ CanStart(World, p, t)
        /\ Becomes(DoTickStart(World, p, t, feed))

Apply(p) ==
    /\ proc[p].pc = "apply"
    /\ Becomes(DoApply(World, p))

SaveDocs(p) ==
    /\ proc[p].pc = "save_docs"
    /\ Becomes(DoSaveDocs(World, p))

MarkSeen(p) ==
    /\ proc[p].pc = "mark_seen"
    /\ Becomes(DoMarkSeen(World, p))

SaveTopic(p) ==
    /\ proc[p].pc = "save_topic"
    /\ Becomes(DoSaveTopic(World, p))

RecentDocs(p) ==
    /\ proc[p].pc = "recent_docs"
    /\ Becomes(DoRecentDocs(World, p))

\* storage.recent_docs raises.
RecentDocsFails(p) ==
    /\ proc[p].pc = "recent_docs"
    /\ Becomes(Raise(World, p, "StorageError"))

Cluster(p) ==
    /\ proc[p].pc = "cluster"
    /\ \E snaps \in ClusterOutputs(topics[proc[p].topic], proc[p].window) :
          Becomes(DoCluster(World, p, snaps))

\* clusterer.cluster raises.
ClusterFails(p) ==
    /\ proc[p].pc = "cluster"
    /\ Becomes(Raise(World, p, "ClustererError"))

MatchOrCreate(p) ==
    /\ proc[p].pc = "match"
    /\ Becomes(DoMatch(World, p))

SmootherUpdate(p) ==
    /\ proc[p].pc = "smooth"
    /\ Becomes(DoSmooth(World, p))

Promote(p) ==
    /\ proc[p].pc = "promote"
    /\ Becomes(DoPromote(World, p))

DeleteState(p) ==
    /\ proc[p].pc = "delete_state"
    /\ Becomes(DoDeleteState(World, p))

ExpireStale(p) ==
    /\ proc[p].pc = "expire"
    /\ Becomes(DoExpire(World, p))

\* Time passes between ticks.
Elapse ==
    /\ \A p \in Procs : proc[p].pc = "idle"
    /\ clock < MaxElapse * ElapseStep
    /\ clock' = clock + ElapseStep
    /\ UNCHANGED <<topics, docs_by_topic, seen_hashes, cluster_state, proc,
                   summary, driver, tick_count, streak, observer>>

Next ==
    \/ \E p \in Procs : TickStart(p)
    \/ \E p \in Procs : Apply(p)
    \/ \E p \in Procs : SaveDocs(p)
    \/ \E p \in Procs : MarkSeen(p)
    \/ \E p \in Procs : SaveTopic(p)
    \/ \E p \in Procs : RecentDocs(p)
    \/ \E p \in Procs : RecentDocsFails(p)
    \/ \E p \in Procs : Cluster(p)
    \/ \E p \in Procs : ClusterFails(p)
    \/ \E p \in Procs : MatchOrCreate(p)
    \/ \E p \in Procs : SmootherUpdate(p)
    \/ \E p \in Procs : Promote(p)
    \/ \E p \in Procs : DeleteState(p)
    \/ \E p \in Procs : ExpireStale(p)
    \/ Elapse

Spec == Init /\ [][Next]_vars

SpecConc == InitConc /\ [][Next]_vars

\* ------------------------------------------------------------ properties
Returns(p) == proc[p].pc = "expire" /\ proc'[p].pc = "idle"
StateIds(states) == {states[j].cluster_id : j \in 1..Len(states)}
Untimed(topic) == [topic EXCEPT !.last_updated_ts = 0]

\* C1: with persistence_min = 2 a candidate is not promoted in the first
\* tick in which it qualifies: a state that a tick promotes had already
\* qualified (persistence >= 1) when that tick started.
C1_NoPromotionInFirstQualifyingTick ==
    \A p \in Procs :
        proc[p].pc = "promote" =>
            \E j \in 1..Len(proc[p].start[1].states) :
                /\ proc[p].start[1].states[j].cluster_id
                       = proc[p].state[1].cluster_id
                /\ proc[p].start[1].states[j].persistence >= 1

\* C2: every ClusterSmoother.update sets persistence to 0 when meets is
\* false and to the previous value + 1 when meets is true, and saves that;
\* no other step lowers the persistence of a stored state, and it is never
\* negative.
C2_PersistenceResetOrIncrement ==
    [][
        /\ \A p \in Procs :
             (proc[p].pc = "smooth" /\ proc'[p].pc # "smooth") =>
                 LET t == proc[p].topic
                     snap == proc[p].snaps[proc[p].i]
                     before == proc[p].matched[1]
                     after == proc'[p].state[1]
                     ok == meets(PolicyObj(topics[t].policy), snap, after)
                 IN  /\ ~ok => after.persistence = 0
                     /\ ok => after.persistence = before.persistence + 1
                     /\ \E j \in 1..Len(cluster_state') :
                           /\ cluster_state'[j].tid = t
                           /\ cluster_state'[j].st = after
        /\ \A j \in 1..Len(cluster_state), k \in 1..Len(cluster_state') :
             (/\ cluster_state[j].tid = cluster_state'[k].tid
              /\ cluster_state[j].st.cluster_id = cluster_state'[k].st.cluster_id
              /\ cluster_state'[k].st.persistence
                     < cluster_state[j].st.persistence)
             => \E p \in Procs :
                   /\ proc[p].pc = "smooth"
                   /\ proc[p].topic = cluster_state[j].tid
                   /\ proc[p].matched[1].cluster_id
                          = cluster_state[j].st.cluster_id
                   /\ cluster_state'[k].st.persistence = 0
        /\ \A k \in 1..Len(cluster_state') :
             cluster_state'[k].st.persistence >= 0]_vars

\* A smoothing has reset a count that was positive.
C2_Witness ==
    \E p \in Procs :
        /\ proc[p].pc \in {"match", "expire"}
        /\ proc[p].matched # <<>>
        /\ proc[p].matched[1].persistence >= 1
        /\ proc[p].state[1].persistence = 0

\* C3: a second tick on a topic during which the search returns no hits
\* returns ingested = 0, promotes nothing, creates no candidate state and
\* leaves the stored topic unchanged except for last_updated_ts.
C3_SecondEmptyTickIdempotent ==
    [][\A p \in Procs :
          (Returns(p) /\ proc[p].feed = <<>> /\ proc[p].tick_no >= 2) =>
              LET t == proc[p].topic
                  start == proc[p].start[1]
              IN  /\ summary'[p][1].ingested = 0
                  /\ summary'[p][1].promotions = <<>>
                  /\ StateIds(StatesOf(cluster_state', t))
                         \subseteq StateIds(start.states)
                  /\ Untimed(topics'[t]) = Untimed(start.topic)]_vars

\* C4: when a tick returns, doc_count has grown by summary.ingested and
\* the seen-hash set by exactly summary.ingested new hashes.
C4_DocCountAndSeenGrowByIngested ==
    [][\A p \in Procs :
          Returns(p) =>
              LET t == proc[p].topic
                  start == proc[p].start[1]
                  n == summary'[p][1].ingested
              IN  /\ topics'[t].doc_count = start.topic.doc_count + n
                  /\ start.seen \subseteq seen_hashes'[t]
                  /\ Cardinality(seen_hashes'[t] \ start.seen) = n]_vars

SameText(feed) == \A i, j \in 1..Len(feed) : feed[i].text = feed[j].text

\* C5: a tick ingests no document whose hash was seen when it started and
\* no two documents with one hash; three hits with identical text give
\* ingested = 1, and the same hits again give ingested = 0.
C5_DedupeAndThreeIdenticalHits ==
    \A p \in Procs :
        summary[p] # <<>> =>
            LET s == summary[p][1]
                fresh == \A i \in 1..Len(s.feed) :
                             PyHash(s.feed[i].text) \notin s.start.seen
                stale == \A i \in 1..Len(s.feed) :
                             PyHash(s.feed[i].text) \in s.start.seen
            IN  /\ \A i \in 1..Len(s.topK) : s.topK[i].hash \notin s.start.seen
                /\ \A i, j \in 1..Len(s.topK) :
                       s.topK[i].hash = s.topK[j].hash => i = j
                /\ (Len(s.feed) = 3 /\ SameText(s.feed) /\ fresh)
                       => (s.status = "ok" /\ s.ingested = 1)
                /\ (Len(s.feed) = 3 /\ SameText(s.feed) /\ stale)
                       => (s.status = "ok" /\ s.ingested = 0)

Promoted == DOMAIN topics \ Roots
ParentOf(id) == <<id[1]>>

\* C6: every child saved by a promotion has emerged_from = the parent's id,
\* and the child's id is an element of the stored parent's children list.
C6_ChildIdInParentChildren ==
    \A id \in Promoted :
        /\ topics[id].emerged_from = ParentOf(id)
        /\ \E j \in 1..Len(topics[ParentOf(id)].children) :
              topics[ParentOf(id)].children[j] = id

\* C7: for every stored topic, centroid_long is null exactly when
\* doc_count = 0.
C7_CentroidNullIffNoDocs ==
    \A id \in DOMAIN topics :
        (topics[id].centroid_long = <<>>) <=> (topics[id].doc_count = 0)

\* C8: between the ticks of its topic, a candidate's persistence is the
\* number of consecutive ticks, ending with the last one, in which the
\* candidate qualified.
C8_PersistenceIsConsecutiveTicks ==
    \A j \in 1..Len(cluster_state) :
        ~Busy(World, cluster_state[j].tid) =>
            cluster_state[j].st.persistence
                = Get(streak, <<cluster_state[j].tid,
                                cluster_state[j].st.cluster_id>>, 0)

Fails(p) == proc[p].pc \in {"recent_docs", "cluster"} /\ proc'[p].pc = "idle"

\* C9: when a tick fails in recent_docs or in the clusterer, storage holds
\* the accepted documents, their hashes and the updated topic, and the
\* candidate states of the topic are as they were when the tick started.
C9_FailureBeforeLoopKeepsIngest ==
    [][\A p \in Procs :
          Fails(p) =>
              LET loc == proc[p]
                  t == loc.topic
                  start == loc.start[1]
              IN  /\ docs_by_topic'[t] = start.docs \o loc.topK
                  /\ seen_hashes'[t] = start.seen \cup Hashes(loc.topK)
                  /\ topics'[t] = apply(start.topic, loc.topK, loc.now_ts)
                  /\ StatesOf(cluster_state', t) = start.states]_vars

\* A tick that had accepted documents failed after persisting them.
C9_Witness ==
    \E p \in Procs :
        /\ summary[p] # <<>>
        /\ summary[p][1].status \in {"StorageError", "ClustererError"}
        /\ summary[p][1].topK # <<>>
        /\ proc[p].pc = "idle"
        /\ docs_by_topic[summary[p][1].topic_id] # <<>>

\* The step a thread takes next as a function of the state and of what the
\* outside delivers to it: the topic and the feed of a tick that starts,
\* the clusterer's output, or the failure of a port.
NoInput == [t |-> <<>>, feed |-> <<>>, snaps |-> <<>>, fails |-> FALSE]

Inputs(W, p) ==
    LET pc == W.proc[p].pc
    IN  IF pc = "idle"
        THEN {[NoInput EXCEPT !.t = t, !.feed = feed] :
                 t \in {r \in Roots : CanStart(W, p, r)}, feed \in Feeds}
        ELSE IF pc = "recent_docs"
        THEN {NoInput, [NoInput EXCEPT !.fails = TRUE]}
        ELSE IF pc = "cluster"
        THEN {[NoInput EXCEPT !.snaps = snaps] :
                 snaps \in ClusterOutputs(W.topics[W.proc[p].topic],
                                          W.proc[p].window)}
             \cup {[NoInput EXCEPT !.fails = TRUE]}
        ELSE {NoInput}

Step(W, p, in) ==
    LET pc == W.proc[p].pc
    IN  CASE pc = "idle" -> DoTickStart(W, p, in.t, in.feed)
          [] pc = "apply" -> DoApply(W, p)
          [] pc = "save_docs" -> DoSaveDocs(W, p)
          [] pc = "mark_seen" -> DoMarkSeen(W, p)
          [] pc = "save_topic" -> DoSaveTopic(W, p)
          [] pc = "recent_docs" ->
                IF in.fails THEN Raise(W, p, "StorageError")
                ELSE DoRecentDocs(W, p)
          [] pc = "cluster" ->
                IF in.fails THEN Raise(W, p, "ClustererError")
                ELSE DoCluster(W, p, in.snaps)
          [] pc = "match" -> DoMatch(W, p)
          [] pc = "smooth" -> DoSmooth(W, p)
          [] pc = "promote" -> DoPromote(W, p)
          [] pc = "delete_state" -> DoDeleteState(W, p)
          [] pc = "expire" -> DoExpire(W, p)

\* What the threads and the topics hold: the dict of candidate states is
\* read per topic, in the order list_states gives.
View(W) ==
    [topics |-> W.topics, docs_by_topic |-> W.docs_by_topic,
     seen_hashes |-> W.seen_hashes,
     states |-> [t \in Roots |-> list_states(W, t)],
     proc |-> W.proc, summary |-> W.summary, tick_count |-> W.tick_count,
     driver |-> W.driver, clock |-> W.clock, streak |-> W.streak]

TopicOf(W, p, in) == IF W.proc[p].pc = "idle" THEN in.t ELSE W.proc[p].topic

AgeMenu == {0, ExpireMaxAgeDays, 2 * ExpireMaxAgeDays}

EntriesOf(W, t) ==
    SelectSeq(W.cluster_state, LAMBDA e : e.tid = t)
EntriesNotOf(W, t) ==
    SelectSeq(W.cluster_state, LAMBDA e : e.tid # t)

\* expire_stale on the storage of W keeps exactly the younger states of the
\* topic, in place, and touches nothing else.
ExpireExact(W) ==
    \A t \in Roots, d \in AgeMenu :
        LET W2 == expire_stale(W, t, d)
        IN  /\ EntriesOf(W2, t)
                 = SelectSeq(EntriesOf(W, t),
                             LAMBDA e : W.clock - e.st.last_seen_ts
                                            < d * SecondsPerDay)
            /\ EntriesNotOf(W2, t) = EntriesNotOf(W, t)
            /\ [W2 EXCEPT !.cluster_state = <<>>]
                 = [W EXCEPT !.cluster_state = <<>>]

\* C11: expire_stale deletes exactly the states of the topic whose age is
\* >= max_age_days * 86400 and keeps every younger one; after the expiry
\* step that ends a tick no state of the topic that old is in storage.
C11_ExpireStaleDeletesExactlyTheOld ==
    [][/\ ExpireExact(World)
       /\ \A p \in Procs :
            Returns(p) =>
                LET t == proc[p].topic
                    old == SelectSeq(cluster_state, LAMBDA e : e.tid = t)
                    new == SelectSeq(cluster_state', LAMBDA e : e.tid = t)
                IN  /\ new = SelectSeq(old,
                                 LAMBDA e : clock - e.st.last_seen_ts
                                     < ExpireMaxAgeDays * SecondsPerDay)
                    /\ \A j \in 1..Len(new) :
                          clock' - new[j].st.last_seen_ts
                              < ExpireMaxAgeDays * SecondsPerDay]_vars

\* A tick has ended by expiring the state an earlier tick had left.
C11_Witness ==
    \E p \in Procs :
        /\ proc[p].pc = "idle"
        /\ summary[p] # <<>>
        /\ summary[p][1].status = "ok"
        /\ summary[p][1].start.states # <<>>
        /\ summary[p][1].promotions = <<>>
        /\ summary[p][1].clusters_observed = 0
        /\ list_states(World, summary[p][1].topic_id) = <<>>

EmptyClustering(p) == Returns(p) /\ proc[p].snaps = <<>>

\* C12: when the clusterer returns an empty list the tick creates, updates
\* and promotes no candidate state, and completes with clusters_observed =
\* 0; the expiry at the end of the tick still runs, so of the states the
\* tick found exactly those older than the age bound are gone.
C12_EmptyClusteringOnlyExpires ==
    [][\A p \in Procs :
          EmptyClustering(p) =>
              LET t == proc[p].topic
                  start == proc[p].start[1]
              IN  /\ StatesOf(cluster_state', t)
                       = SelectSeq(start.states,
                                   LAMBDA st : proc[p].now_ts - st.last_seen_ts
                                       < ExpireMaxAgeDays * SecondsPerDay)
                  /\ topics'[t].children = start.topic.children
                  /\ DOMAIN topics' = DOMAIN topics
                  /\ summary'[p][1].status = "ok"
                  /\ summary'[p][1].clusters_observed = 0
                  /\ summary'[p][1].promotions = <<>>]_vars

\* C12 as stated: when the clusterer returns an empty list the tick changes
\* no candidate state of the topic, expiry included.
C12_EmptyClusteringChangesNoState ==
    [][\A p \in Procs :
          EmptyClustering(p) =>
              /\ StatesOf(cluster_state', proc[p].topic)
                   = proc[p].start[1].states
              /\ summary'[p][1].status = "ok"
              /\ summary'[p][1].clusters_observed = 0]_vars

\* A tick whose clusterer returned nothing for a window with documents has
\* ended and the states it found are still there.
C12_Witness ==
    \E p \in Procs :
        /\ proc[p].pc = "idle"
        /\ summary[p] # <<>>
        /\ summary[p][1].status = "ok"
        /\ summary[p][1].clusters_observed = 0
        /\ summary[p][1].start.states # <<>>
        /\ docs_by_topic[summary[p][1].topic_id] # <<>>
        /\ list_states(World, summary[p][1].topic_id)
             = summary[p][1].start.states

SameKey(e, f) == e.tid = f.tid /\ e.st.cluster_id = f.st.cluster_id

\* The thread is deleting the state e after having promoted it.
DeletesPromoted(p, e) ==
    /\ proc[p].pc = "delete_state"
    /\ proc[p].topic = e.tid
    /\ proc[p].state[1].cluster_id = e.st.cluster_id
    /\ proc[p].promotions # <<>>
    /\ proc[p].promotions[Len(proc[p].promotions)][1]
         = ChildId(proc[p].topic, proc[p].tick_no, proc[p].i)
    /\ ChildId(proc[p].topic, proc[p].tick_no, proc[p].i) \in DOMAIN topics

\* The thread is expiring the states of e's topic and e is old enough.
ExpiresOld(p, e) ==
    /\ proc[p].pc = "expire"
    /\ proc[p].topic = e.tid
    /\ clock - e.st.last_seen_ts >= ExpireMaxAgeDays * SecondsPerDay

Probes ==
    {<<<<One, One>>, tau_match>>,
     <<<<<<3, 1>>, <<4, 1>>>>, <<3, 5>>>>,
     <<<<<<4, 1>>, <<3, 1>>>>, <<7, 10>>>>,
     <<<<<<5, 1>>, <<12, 1>>>>, tau_match>>}
ProbeSnap(c) == [SQ EXCEPT !.centroid_now = c]
ProbeKey(t) == CandKey(t, 0, 0)

\* The states of the list with a centroid whose cosine to c is the highest.
Closest(states, c) ==
    {i \in 1..Len(states) :
        /\ states[i].centroid_ema # <<>>
        /\ \A j \in 1..Len(states) :
              states[j].centroid_ema # <<>> =>
                  RGe(cos(c, states[i].centroid_ema),
                      cos(c, states[j].centroid_ema))}

First(S) == CHOOSE i \in S : \A j \in S : i <= j

MatchExact(W) ==
    \A t \in Roots, pr \in Probes :
        LET c == pr[1]
            tau == pr[2]
            states == list_states(W, t)
            near == Closest(states, c)
            r == match_or_create_at(tau, W, W.topics[t], ProbeSnap(c),
                                    ProbeKey(t))
        IN  IF near # {}
               /\ RGe(cos(c, states[First(near)].centroid_ema), Sq(tau))
            THEN r[2] = states[First(near)]
            ELSE /\ r[2].cluster_id = ProbeKey(t)
                 /\ \A i \in 1..Len(states) :
                       states[i].cluster_id # r[2].cluster_id
                 /\ list_states(r[1], t) = Append(states, r[2])

\* C14: match_or_create returns the persisted state of the topic whose
\* centroid_ema has the highest cosine to the snapshot's centroid when that
\* cosine is >= tau_match, the first in storage order among equal maxima,
\* and a newly created state in every other case.
C14_MatchReturnsClosestOrCreates ==
    /\ MatchExact(World)
    /\ \A p \in Procs :
          (proc[p].pc = "smooth" /\ proc[p].state = proc[p].matched) =>
              LET t == proc[p].topic
                  c == proc[p].snaps[proc[p].i].centroid_now
                  m == proc[p].matched[1]
                  states == list_states(World, t)
              IN  IF m.centroid_ema = <<>>
                  THEN m.cluster_id
                           = CandKey(t, proc[p].tick_no, proc[p].i)
                       /\ \A i \in Closest(states, c) :
                             RLt(cos(c, states[i].centroid_ema), Sq(tau_match))
                  ELSE /\ Closest(states, c) # {}
                       /\ m = states[First(Closest(states, c))]
                       /\ RGe(cos(c, m.centroid_ema), Sq(tau_match))

\* A snapshot as close to the second state of its topic as to the first
\* has been matched to the first.
C14_Witness ==
    \E p \in Procs :
        LET states == list_states(World, proc[p].topic)
        IN  /\ proc[p].pc = "smooth"
            /\ Len(states) >= 2
            /\ Cardinality(Closest(states,
                   proc[p].snaps[proc[p].i].centroid_now)) >= 2
            /\ proc[p].matched[1] = states[1]

Matches(p) == proc[p].pc = "match" /\ proc'[p].pc = "smooth"

StorageUnchanged ==
    UNCHANGED <<topics, docs_by_topic, seen_hashes, cluster_state>>

NullStates(W, t) ==
    {i \in 1..Len(list_states(W, t)) : list_states(W, t)[i].centroid_ema = <<>>}

\* With a state without centroid in storage, whatever the snapshot,
\* match_or_create returns a state with a centroid or a new one.
NullNeverMatched(W) ==
    \A t \in Roots : NullStates(W, t) # {} =>
        \A pr \in Probes :
            LET states == list_states(W, t)
                r == match_or_create_at(pr[2], W, W.topics[t], ProbeSnap(pr[1]),
                                        ProbeKey(t))
            IN  \/ r[2].centroid_ema # <<>>
                \/ /\ r[2].cluster_id = ProbeKey(t)
                   /\ \A i \in 1..Len(states) : states[i] # r[2]

Smooths(p) == proc[p].pc = "smooth" /\ proc'[p].pc # "smooth"

\* C16: a state whose centroid_ema is null is never returned as a match;
\* the smoothing step gives the state a centroid, no stored centroid
\* becomes null again, and when a tick returns normally no stored state of
\* its topic has a null centroid_ema.
C16_NullCentroidOnlyUntilSmoothed ==
    [][ /\ NullNeverMatched(World)
        /\ \A p \in Procs :
              /\ Matches(p) =>
                    \A i \in 1..Len(list_states(World, proc[p].topic)) :
                        list_states(World, proc[p].topic)[i] = proc'[p].matched[1]
                            => proc'[p].matched[1].centroid_ema # <<>>
              /\ Smooths(p) => proc'[p].state[1].centroid_ema # <<>>
              /\ (Returns(p) /\ summary'[p][1].status = "ok") =>
                    \A i \in 1..Len(cluster_state') :
                        cluster_state'[i].tid = proc[p].topic =>
                            cluster_state'[i].st.centroid_ema # <<>>
        /\ \A i \in 1..Len(cluster_state), j \in 1..Len(cluster_state') :
              (SameKey(cluster_state[i], cluster_state'[j])
                  /\ cluster_state[i].st.centroid_ema # <<>>)
                  => cluster_state'[j].st.centroid_ema # <<>>
    ]_vars

\* A state without centroid is stored next to one with a centroid while the
\* tick that created it is about to smooth it.
C16_Witness ==
    \E p \in Procs :
        /\ proc[p].pc = "smooth"
        /\ NullStates(World, proc[p].topic) # {}
        /\ \E i \in 1..Len(list_states(World, proc[p].topic)) :
              list_states(World, proc[p].topic)[i].centroid_ema # <<>>
        /\ HasState(World, proc[p].topic, proc[p].matched[1].cluster_id)
        /\ proc[p].matched[1].centroid_ema = <<>>

\* A snapshot and a state that sit exactly on the four bounds of the
\* topic's policy, moved by ds, dc (hundredths), dp (hundredths), dn.
OnBounds(topic, ds, dc, dp, dn) ==
    LET policy == PolicyObj(topic.policy)
    IN  <<[cluster_id |-> SQ.cluster_id, centroid_now |-> SQ.centroid_now,
           size |-> policy.m_min + ds, cohesion_now |-> SQ.cohesion_now,
           separation_now |-> SQ.separation_now, doc_ids |-> <<>>],
          [NewClusterState(ProbeKey(topic.id), 0) EXCEPT
              !.cohesion_ema = RAdd(policy.tau_cohesion, Rat(dc, 100)),
              !.separation_ema =
                  RAdd(RSub(One, policy.tau_separation), Rat(dp, 100)),
              !.persistence = policy.persistence_min + dn]>>

\* On the four bounds, and one step off one of them at a time.
Moves ==
    {<<0, 0, 0, 0>>,
     <<-1, 0, 0, 0>>, <<0, -1, 0, 0>>, <<0, 0, -1, 0>>, <<0, 0, 0, -1>>,
     <<1, 0, 0, 0>>, <<0, 1, 0, 0>>, <<0, 0, 1, 0>>, <<0, 0, 0, 1>>}

ReadyExact(W) ==
    \A t \in Roots, mv \in Moves :
        LET topic == W.topics[t]
            ds == mv[1]
            dc == mv[2]
            dp == mv[3]
            dn == mv[4]
            on == OnBounds(topic, ds, dc, dp, dn)
            chk == explain(topic, on[1], on[2])
        IN  /\ chk.mass_ok = (ds >= 0)
            /\ chk.cohesion_ok = (dc >= 0)
            /\ chk.separation_ok = (dp >= 0)
            /\ chk.persistence_ok = (dn >= 0)
            /\ ready(topic, on[1], on[2])
                  = (ds >= 0 /\ dc >= 0 /\ dp >= 0 /\ dn >= 0)

\* C17: ready is true exactly when size >= m_min, cohesion_ema >=
\* tau_cohesion, 1 - separation_ema <= tau_separation and persistence >=
\* persistence_min, a value on its bound passing; explain reports these four
\* flags; and the step of a tick that asks ready leaves the topic as it was
\* and the state as the smoother stored it.
C17_ReadyIsTheInclusiveConjunction ==
    [][ /\ ReadyExact(World)
        /\ \A p \in Procs : Smooths(p) =>
              LET t == proc[p].topic
                  policy == PolicyObj(topics[t].policy)
                  snap == proc[p].snaps[proc[p].i]
                  st == proc'[p].state[1]
              IN  /\ (proc'[p].pc = "promote") =
                        (/\ snap.size >= policy.m_min
                         /\ RGe(st.cohesion_ema, policy.tau_cohesion)
                         /\ RLe(RSub(One, st.separation_ema),
                                policy.tau_separation)
                         /\ st.persistence >= policy.persistence_min)
                  /\ topics' = topics
                  /\ proc'[p].snaps = proc[p].snaps
                  /\ load_cluster_state(World', t, st.cluster_id) = st
                  /\ st = smoothed(SmootherBeta, topics[t], snap,
                                   load_cluster_state(World, t, st.cluster_id),
                                   clock)
    ]_vars

\* A tick found a candidate ready whose size and persistence sit exactly on
\* their bounds.
C17_Witness ==
    \E p \in Procs :
        /\ proc[p].pc = "promote"
        /\ proc[p].snaps[proc[p].i].size
              = PolicyObj(topics[proc[p].topic].policy).m_min
        /\ proc[p].state[1].persistence
              = PolicyObj(topics[proc[p].topic].policy).persistence_min

Promotes(p) == proc[p].pc = "promote" /\ proc'[p].pc = "delete_state"

\* The topic stored by this step and by no earlier one.
NewTopics == DOMAIN topics' \ DOMAIN topics

\* C18: the child a tick gets from promote has an id other than its
\* parent's, the name and seeds the namer gives for cluster_docs,
\* centroid_long = snapshot.centroid_now, doc_count = snapshot.size,
\* centroid_short_ema null and emerged_from = parent.id; in that step the
\* parent changes only by the child appended to its children, and storage
\* only by the child saved (with no documents and no hashes).
C18_PromoteBuildsChildFromSnapshot ==
    [][ \A p \in Procs : Promotes(p) =>
          LET t == proc[p].topic
              snap == proc[p].snaps[proc[p].i]
              cluster_docs ==
                  SelectSeq(proc[p].window,
                            LAMBDA d : \E j \in 1..Len(snap.doc_ids) :
                                          snap.doc_ids[j] = d.id)
          IN  /\ Cardinality(NewTopics) = 1
              /\ \A c \in NewTopics :
                    /\ topics'[c].id = c
                    /\ c # t
                    /\ <<topics'[c].name, topics'[c].seeds>>
                          = name_and_seeds(cluster_docs)
                    /\ topics'[c].centroid_long = snap.centroid_now
                    /\ topics'[c].doc_count = snap.size
                    /\ topics'[c].centroid_short_ema = <<>>
                    /\ topics'[c].emerged_from = t
                    /\ topics'[t] = [topics[t] EXCEPT
                                        !.children = Append(@, Ref(c))]
              /\ \A u \in DOMAIN topics \ {t} : topics'[u] = topics[u]
              /\ \A u \in DOMAIN docs_by_topic :
                    docs_by_topic'[u] = docs_by_topic[u]
              /\ \A u \in DOMAIN docs_by_topic' \ DOMAIN docs_by_topic :
                    u \in NewTopics /\ docs_by_topic'[u] = <<>>
              /\ \A u \in DOMAIN seen_hashes :
                    seen_hashes'[u] = seen_hashes[u]
              /\ \A u \in DOMAIN seen_hashes' \ DOMAIN seen_hashes :
                    u \in NewTopics /\ seen_hashes'[u] = {}
              /\ UNCHANGED cluster_state
    ]_vars

\* A child has just been promoted from a snapshot whose centroid is not its
\* parent's, out of a window of documents with different texts.
C18_Witness ==
    \E p \in Procs :
        /\ proc[p].pc = "delete_state"
        /\ \E c \in DOMAIN topics :
              /\ topics[c].emerged_from = proc[p].topic
              /\ topics[proc[p].topic].children = <<Ref(c)>>
              /\ topics[c].centroid_long # topics[proc[p].topic].centroid_long
              /\ topics[proc[p].topic].centroid_long # <<>>
              /\ Len(topics[c].seeds) = 2

Children == {c \in DOMAIN topics : topics[c].emerged_from # <<>>}

\* C19: a promoted child shares no mutable state with its parent: writing
\* through the parent's policy or negative rules leaves what the child reads
\* through its own unchanged, and writing through the child's leaves the
\* parent's unchanged.
C19_ChildSharesNothingWithParent ==
    \A c \in Children :
        LET child == topics[c]
            parent == topics[child.emerged_from]
        IN  /\ PolicyOf(SetMMin(Heap, parent, 1), child) = PolicyOf(Heap, child)
            /\ NegativeOf(BlockTerm(Heap, parent, "spam"), child)
                  = NegativeOf(Heap, child)
            /\ PolicyOf(SetMMin(Heap, child, 1), parent) = PolicyOf(Heap, parent)
            /\ NegativeOf(BlockTerm(Heap, child, "spam"), parent)
                  = NegativeOf(Heap, parent)

Applies(p) == proc[p].pc = "apply" /\ proc'[p].pc = "save_docs"

RECURSIVE SumOfVecs(_)
SumOfVecs(docs) ==
    IF Len(docs) = 1 THEN docs[1].vec
    ELSE LET rest == SumOfVecs(Tail(docs))
         IN  [k \in 1..Len(docs[1].vec) |-> RAdd(docs[1].vec[k], rest[k])]

ArithmeticMean(docs) ==
    [k \in 1..Len(docs[1].vec) |-> RDiv(SumOfVecs(docs)[k], <<Len(docs), 1>>)]

\* C20: after TopicUpdater.apply, centroid_long is the arithmetic mean of
\* the vectors of all documents folded so far (those stored for the topic and
\* the ones just folded) whatever their authority, doc_count has grown by
\* one per document, and last_updated_ts = now_ts.
C20_ApplyFoldsUnweightedMean ==
    [][ \A p \in Procs : Applies(p) =>
          LET t == proc[p].topic
              folded == Get(docs_by_topic, t, <<>>) \o proc[p].topK
          IN  /\ topics'[t].last_updated_ts = proc[p].now_ts
              /\ topics'[t].doc_count = topics[t].doc_count + Len(proc[p].topK)
              /\ folded # <<>> =>
                    topics'[t].centroid_long = ArithmeticMean(folded)
    ]_vars


\* ---------------------------------------------- the fold of apply, alone
\* TopicUpdater.apply one document at a time, on documents with any of a
\* few vectors and weights in any order: proc[p].i counts the documents
\* folded so far.
FoldPages ==
    {[url |-> "u1", text |-> "alpha", hash |-> "", vec |-> v, authority |-> a,
      ts |-> <<>>] :
        v \in {<<One, <<2, 1>>>>, <<<<3, 1>>, <<4, 1>>>>, <<Zero, <<-1, 1>>>>},
        a \in {Half, One, <<3, 1>>}}
MaxFold == 3

InitFold ==
    /\ topics = [t \in Roots |-> Root(t, Zero)]
    /\ docs_by_topic = [t \in Roots |-> <<>>]
    /\ seen_hashes = [t \in Roots |-> {}]
    /\ cluster_state = <<>>
    /\ clock = 0
    /\ \E feed \in SeqsUpTo(FoldPages, MaxFold) :
          proc = [p \in Procs |->
                     IF p = "p1"
                     THEN [IdleLocal EXCEPT
                              !.pc = "apply", !.topic = RootA, !.tick_no = 1,
                              !.topK = Assemble(feed, RootA[1], 1, 0),
                              !.feed = feed]
                     ELSE IdleLocal]
    /\ summary = [p \in Procs |-> <<>>]
    /\ driver = [p \in Procs |-> [left |-> 0, topics |-> {}, fed |-> <<>>]]
    /\ tick_count = [t \in Roots |-> IF t = RootA THEN 1 ELSE 0]
    /\ streak = [key \in {} |-> 0]
    /\ observer = NewObserver

\* One turn of "for d in docs" (topic_updater.py:20-25).
FoldStep(p) ==
    /\ proc[p].pc = "apply"
    /\ proc[p].i < Len(proc[p].topK)
    /\ LET t == proc[p].topic
           cw == FoldDocs(<<topics[t].centroid_long, topics[t].weight_sum>>,
                          <<proc[p].topK[proc[p].i + 1]>>, proc[p].now_ts)
       IN  topics' = [topics EXCEPT ![t].centroid_long = cw[1],
                                    ![t].weight_sum = cw[2]]
    /\ proc' = [proc EXCEPT ![p].i = @ + 1]
    /\ UNCHANGED <<docs_by_topic, seen_hashes, cluster_state, clock, summary,
                   driver, tick_count, streak, observer>>

NextFold == \E p \in Procs : FoldStep(p)

SpecFold == InitFold /\ [][NextFold]_vars

Folded(p) == SubSeq(proc[p].topK, 1, proc[p].i)

\* C21: folding (vector, weight) pairs one at a time through
\* weighted_incremental_mean from (None, 0) gives, after every pair, the
\* centroid and the total weight that wmean gives for the pairs folded so
\* far (all weights positive).
C21_FoldEqualsBatchMean ==
    \A p \in Procs :
        (proc[p].pc = "apply" /\ proc[p].i >= 1) =>
            LET docs == Folded(p)
                batch == wmean([k \in 1..Len(docs) |-> docs[k].vec],
                               [k \in 1..Len(docs) |-> docs[k].authority])
            IN  /\ topics[proc[p].topic].centroid_long = batch[1]
                /\ topics[proc[p].topic].weight_sum = batch[2]

\* Three pairs with three different weights and different vectors have been
\* folded.
C21_Witness ==
    \E p \in Procs :
        /\ proc[p].pc = "apply"
        /\ proc[p].i = 3
        /\ Cardinality({Folded(p)[k].authority : k \in 1..3}) = 3
        /\ Cardinality({Folded(p)[k].vec : k \in 1..3}) = 3

\* ------------------------------------------------- a second, fresh engine
\* An engine of its own: empty storage, one root, its own clock.
FreshWorld(t, weight_sum, now) ==
    [topics |-> [x \in {t} |-> Root(t, weight_sum)],
     docs_by_topic |-> [x \in {t} |-> <<>>],
     seen_hashes |-> [x \in {t} |-> {}],
     cluster_state |-> <<>>, clock |-> now,
     proc |-> [p \in Procs |-> IdleLocal],
     summary |-> [p \in Procs |-> <<>>],
     driver |-> [p \in Procs |->
                    [left |-> MaxTicks, topics |-> {t}, fed |-> <<>>]],
     tick_count |-> [x \in {t} |-> 0],
     streak |-> [key \in {} |-> 0], observer |-> NewObserver]

\* One tick of that engine up to save_topic; what follows does not write
\* the topic's centroid.
Ingest(W, p, t, feed) ==
    LET W1 == DoApply(DoTickStart(W, p, t, feed), p)
    IN  IF W1.proc[p].pc = "idle" THEN W1
        ELSE Raise(DoSaveTopic(DoMarkSeen(DoSaveDocs(W1, p), p), p), p,
                   "StorageError")

RECURSIVE Replay(_, _, _, _)
Replay(W, p, t, feeds) ==
    IF feeds = <<>> THEN W
    ELSE Replay(Ingest(W, p, t, Head(feeds)), p, t, Tail(feeds))

ReplayClock == 777

EdgeFeeds == {<<PX1, PXU>>, <<PXU>>, <<PNoText, PY>>}

TickStartEdge(p) ==
    \E t \in Roots, feed \in EdgeFeeds :
        /\ CanStart(World, p, t)
        /\ Becomes(DoTickStart(World, p, t, feed))

\* An id that was never saved.
UnknownId == <<"Z">>

\* A tick that asks storage.seen for the id before it loads the topic.
tick_unknown_marking(W, p, t) ==
    [W EXCEPT !.seen_hashes = SetDefault(W.seen_hashes, t, {}),
              !.driver[p].left = W.driver[p].left - 1,
              !.summary[p] =
                  <<[status |-> "KeyError", ingested |-> 0,
                     clusters_observed |-> 0, promotions |-> <<>>,
                     topic_id |-> t, updated_at |-> W.clock,
                     feed |-> <<>>, topK |-> <<>>,
                     start |-> [docs |-> <<>>, seen |-> {},
                                states |-> <<>>]]>>]

\* tick(topic_id) for an id storage does not hold: self.topics[topic_id]
\* raises KeyError in load_topic, the second statement of tick, before the
\* planner, the searcher, the fetcher and the embedder are called (feed
\* stays empty) and before any call that writes.
tick_unknown(W, p, t) ==
    [W EXCEPT !.driver[p].left = W.driver[p].left - 1,
              !.summary[p] =
                  <<[status |-> "KeyError", ingested |-> 0,
                     clusters_observed |-> 0, promotions |-> <<>>,
                     topic_id |-> t, updated_at |-> W.clock,
                     feed |-> <<>>, topK |-> <<>>,
                     start |-> [docs |-> <<>>, seen |-> {},
                                states |-> <<>>]]>>]

TickUnknown(p) ==
    /\ proc[p].pc = "idle"
    /\ driver[p].left > 0
    /\ driver[p].topics # {}
    /\ UnknownId \notin DOMAIN topics
    /\ Becomes(tick_unknown(World, p, UnknownId))

NextEdge ==
    \/ \E p \in Procs : TickStartEdge(p)
    \/ \E p \in Procs : TickUnknown(p)
    \/ \E p \in Procs : Apply(p)
    \/ \E p \in Procs : SaveDocs(p)
    \/ \E p \in Procs : MarkSeen(p)
    \/ \E p \in Procs : SaveTopic(p)
    \/ \E p \in Procs : RecentDocs(p)
    \/ \E p \in Procs : RecentDocsFails(p)
    \/ \E p \in Procs : Cluster(p)
    \/ \E p \in Procs : ClusterFails(p)
    \/ \E p \in Procs : MatchOrCreate(p)
    \/ \E p \in Procs : SmootherUpdate(p)
    \/ \E p \in Procs : Promote(p)
    \/ \E p \in Procs : DeleteState(p)
    \/ \E p \in Procs : ExpireStale(p)
    \/ Elapse

SpecEdge == Init /\ [][NextEdge]_vars

\* C23: documents whose texts differ only in letter case get the same hash
\* when the page supplies none, so that the log of a topic never holds two
\* documents with the same normalized text.
C23_CaseVariantsIngestedOnce ==
    \A t \in DOMAIN docs_by_topic :
        \A i, j \in 1..Len(docs_by_topic[t]) :
            Lower(docs_by_topic[t][i].text) = Lower(docs_by_topic[t][j].text)
                => /\ docs_by_topic[t][i].hash = docs_by_topic[t][j].hash
                   /\ i = j

\* The thread runs a tick that was given no hits on a topic without
\* centroid and without documents.
EmptyOnFresh(p) ==
    /\ proc[p].pc # "idle"
    /\ proc[p].feed = <<>>
    /\ proc[p].start[1].topic.centroid_long = <<>>
    /\ proc[p].start[1].docs = <<>>

\* C24: a tick with zero hits on a topic with null centroid_long and an
\* empty document log raises nothing of its own (it ends by its summary
\* unless an adapter fails), finds an empty window and no cluster, and
\* returns ingested = 0, clusters_observed = 0 and promotions = [], with
\* doc_count = 0 and the document log, the seen hashes and the candidate
\* states as they were when it started.
C24_EmptyTickOnFreshTopicReturnsZeros ==
    [][ \A p \in Procs : EmptyOnFresh(p) =>
          LET t == proc[p].topic
              start == proc[p].start[1]
          IN  /\ proc'[p].pc = "idle" =>
                    summary'[p][1].status \in {"ok", "StorageError", "ClustererError"}
              /\ proc[p].pc = "cluster" => proc[p].window = <<>>
              /\ Returns(p) =>
                    /\ summary'[p][1].status = "ok"
                    /\ summary'[p][1].ingested = 0
                    /\ summary'[p][1].clusters_observed = 0
                    /\ summary'[p][1].promotions = <<>>
                    /\ topics'[t].doc_count = 0
                    /\ topics'[t].centroid_long = <<>>
                    /\ docs_by_topic'[t] = start.docs
                    /\ seen_hashes'[t] = start.seen
                    /\ list_states(World', t) = start.states
    ]_vars

\* Such a tick has returned its summary on a Topic that has no weight_sum
\* attribute.
C24_Witness ==
    \E p \in Procs :
        /\ proc[p].pc = "idle"
        /\ summary[p] # <<>>
        /\ summary[p][1].status = "ok"
        /\ summary[p][1].feed = <<>>
        /\ summary[p][1].start.docs = <<>>
        /\ summary[p][1].start.topic.centroid_long = <<>>
        /\ summary[p][1].ingested = 0
        /\ topics[summary[p][1].topic_id].weight_sum = <<>>
        /\ docs_by_topic[summary[p][1].topic_id] = <<>>

\* C25: a page that lacks its text is dropped alone: the tick it came in
\* does not fail on it, and when that tick returns the other pages of the
\* batch have been ingested (their hashes are seen).
C25_DamagedPageAloneIsDropped ==
    \A p \in Procs :
        (summary[p] # <<>> /\ LacksText(summary[p][1].feed)) =>
            /\ summary[p][1].status # "KeyError"
            /\ summary[p][1].status = "ok" =>
                  \A i \in 1..Len(summary[p][1].feed) :
                      summary[p][1].feed[i].text # KeyAbsent =>
                          PyHash(summary[p][1].feed[i].text)
                              \in seen_hashes[summary[p][1].topic_id]

\* C26: a tick for an id unknown to storage fails at load_topic: it raises
\* KeyError, no page has been fetched for it, and the topics, document
\* logs, seen-hash sets and candidate states of storage are what they were.
FailsUnknown(p) ==
    /\ proc[p].pc = "idle"
    /\ proc'[p].pc = "idle"
    /\ driver'[p].left < driver[p].left
    /\ summary'[p] # <<>>
    /\ summary'[p][1].topic_id \notin DOMAIN topics
C26_UnknownIdFailsBeforeAnyWrite ==
    [][ \A p \in Procs : FailsUnknown(p) =>
          /\ summary'[p][1].status = "KeyError"
          /\ summary'[p][1].feed = <<>>
          /\ StorageUnchanged ]_vars
C26_Witness ==
    \E p \in Procs :
        /\ summary[p] # <<>>
        /\ summary[p][1].topic_id = UnknownId
        /\ summary[p][1].status = "KeyError"
        /\ \E t \in DOMAIN docs_by_topic : docs_by_topic[t] # <<>>

\* The thread whose tick takes the step, and the topic of that tick.
Acts(p) == proc'[p] # proc[p]
ActsOn(p) == IF proc[p].pc = "idle" THEN proc'[p].topic ELSE proc[p].topic

\* C27: a step of tick(T) deletes no topic and leaves the record, the
\* document log, the seen-hash set and the candidate states of every other
\* topic that exists as they were; a topic it adds is a child of T.
C27_TickWritesOnlyItsTopicAndNewChildren ==
    [][ \A p \in Procs : Acts(p) =>
          /\ DOMAIN topics \subseteq DOMAIN topics'
          /\ \A u \in DOMAIN topics \ {ActsOn(p)} :
                /\ topics'[u] = topics[u]
                /\ u \in DOMAIN docs_by_topic =>
                      /\ u \in DOMAIN docs_by_topic'
                      /\ docs_by_topic'[u] = docs_by_topic[u]
                /\ u \in DOMAIN seen_hashes =>
                      /\ u \in DOMAIN seen_hashes'
                      /\ seen_hashes'[u] = seen_hashes[u]
                /\ StatesOf(cluster_state', u) = StatesOf(cluster_state, u)
          /\ \A u \in NewTopics : topics'[u].emerged_from = ActsOn(p) ]_vars
\* Both topics hold documents, hashes and candidate states, one of them has
\* a child, and a tick has returned.
C27_Witness ==
    /\ \A t \in Roots :
          /\ docs_by_topic[t] # <<>>
          /\ seen_hashes[t] # {}
    /\ \E t \in Roots : StatesOf(cluster_state, t) # <<>>
    /\ \E c \in DOMAIN topics : topics[c].emerged_from # <<>>
    /\ \E p \in Procs : summary[p] # <<>> /\ summary[p][1].status = "ok"

\* The states stored under a topic other than t.
Foreign(W, t) == EntriesNotOf(W, t)
ForeignIds(W, t) ==
    {Foreign(W, t)[j].st.cluster_id : j \in 1..Len(Foreign(W, t))}

\* list_states, match_or_create and expire_stale for t on the storage of W,
\* the snapshot being at the very centroid of a state of another topic and
\* the age bound being 0 days, which every state has reached.
KeyedByTopic(W, t) ==
    /\ StateIds(list_states(W, t)) \cap ForeignIds(W, t) = {}
    /\ list_states(W, t)
         = [j \in 1..Len(EntriesOf(W, t)) |-> EntriesOf(W, t)[j].st]
    /\ \A j \in 1..Len(Foreign(W, t)) :
          Foreign(W, t)[j].st.centroid_ema # <<>> =>
              LET r == match_or_create(
                           W, W.topics[t],
                           ProbeSnap(Foreign(W, t)[j].st.centroid_ema),
                           ProbeKey(t))
              IN  /\ r[2].cluster_id \notin ForeignIds(W, t)
                  /\ Foreign(r[1], t) = Foreign(W, t)
    /\ Foreign(expire_stale(W, t, 0), t) = Foreign(W, t)
    /\ list_states(expire_stale(W, t, 0), t) = <<>>

\* C28: list_states, match_or_create and expire_stale for a topic consider
\* only the states stored under it: a state stored under another topic is
\* not listed, not returned as a match however close its centroid, and not
\* deleted however old it is.
C28_StatesAreKeyedByTopic == \A t \in Roots : KeyedByTopic(World, t)
\* Both topics hold a state with a centroid, and the two centroids are the
\* same.
C28_Witness ==
    \E i, j \in 1..Len(cluster_state) :
        /\ cluster_state[i].tid = RootA
        /\ cluster_state[j].tid = RootB
        /\ cluster_state[i].st.centroid_ema # <<>>
        /\ cluster_state[i].st.centroid_ema = cluster_state[j].st.centroid_ema

\* C29: the seen-hash set of a topic id only grows: after every step of a
\* tick, the promotions and the expiry included, each set holds the hashes
\* it held before.
C29_SeenHashesOnlyGrow ==
    [][ \A u \in DOMAIN seen_hashes :
          /\ u \in DOMAIN seen_hashes'
          /\ seen_hashes[u] \subseteq seen_hashes'[u] ]_vars
\* A second tick has marked a hash that the first had not, has promoted and
\* has returned.
C29_Witness ==
    \E p \in Procs :
        /\ summary[p] # <<>>
        /\ summary[p][1].status = "ok"
        /\ summary[p][1].start.seen # {}
        /\ summary[p][1].promotions # <<>>
        /\ summary[p][1].ingested > 0
        /\ summary[p][1].start.seen \subseteq seen_hashes[summary[p][1].topic_id]
        /\ summary[p][1].start.seen # seen_hashes[summary[p][1].topic_id]

\* C30: with a clock that does not go backwards, the last_updated_ts of a
\* topic never decreases and the last_seen_ts of a candidate state that
\* stays in storage never decreases.
C30_TimestampsNeverDecrease ==
    [][ /\ clock' >= clock
        /\ \A t \in DOMAIN topics :
              topics'[t].last_updated_ts >= topics[t].last_updated_ts
        /\ \A i \in 1..Len(cluster_state), j \in 1..Len(cluster_state') :
              SameKey(cluster_state[i], cluster_state'[j]) =>
                  cluster_state'[j].st.last_seen_ts
                      >= cluster_state[i].st.last_seen_ts ]_vars
\* A later tick, at a later time, has returned after finding a state that
\* an earlier tick had left, and the state and the topic carry later times.
C30_Witness ==
    \E p \in Procs :
        /\ summary[p] # <<>>
        /\ summary[p][1].status = "ok"
        /\ topics[summary[p][1].topic_id].last_updated_ts
              > summary[p][1].start.topic.last_updated_ts
        /\ \E i \in 1..Len(cluster_state),
              j \in 1..Len(summary[p][1].start.states) :
              /\ cluster_state[i].st.cluster_id
                    = summary[p][1].start.states[j].cluster_id
              /\ cluster_state[i].st.last_seen_ts
                    > summary[p][1].start.states[j].last_seen_ts

\* The state the smoothing step of the thread works on.
SmoothedFrom(p) ==
    IF HasState(World, proc[p].topic, proc[p].state[1].cluster_id)
    THEN load_cluster_state(World, proc[p].topic, proc[p].state[1].cluster_id)
    ELSE proc[p].state[1]

\* C31: the smoothing step of a tick uses the beta of the ticked topic's
\* policy: the new centroid_ema, cohesion_ema and separation_ema are
\* (1 - beta) * old + beta * now with beta = topic.policy.ema_beta_cluster,
\* whatever value the smoother was constructed with.
C31_SmoothsWithTheTopicsBeta ==
    [][ \A p \in Procs : Smooths(p) =>
          LET beta == PolicyOf(Heap, topics[proc[p].topic]).ema_beta_cluster
              snap == proc[p].snaps[proc[p].i]
              old == SmoothedFrom(p)
              new == proc'[p].state[1]
          IN  /\ new.centroid_ema
                    = ema_update_vec(old.centroid_ema, snap.centroid_now, beta)
              /\ new.cohesion_ema
                    = RAdd(RMul(RSub(One, beta), old.cohesion_ema),
                           RMul(beta, snap.cohesion_now))
              /\ new.separation_ema
                    = RAdd(RMul(RSub(One, beta), old.separation_ema),
                           RMul(beta, snap.separation_now)) ]_vars

\* ---------------------------------------------------------------- Observer
MaxObserve == 1

\* The stored topics in the order of the dict: the roots as the driver
\* saved them, then the children of topic A as its ticks created them.
OrderKey(id) ==
    IF Len(id) = 1 THEN (IF id = RootA THEN 0 ELSE 1)
    ELSE 2 + id[2] * (MaxSnaps + 1) + id[3]
RECURSIVE InOrder(_)
InOrder(ids) ==
    IF ids = {} THEN <<>>
    ELSE LET m == CHOOSE x \in ids : \A y \in ids : OrderKey(x) <= OrderKey(y)
         IN  <<m>> \o InOrder(ids \ {m})

ClusterObservation(st) ==
    [id |-> st.cluster_id, centroid_ema |-> st.centroid_ema,
     cohesion_ema |-> st.cohesion_ema, separation_ema |-> st.separation_ema,
     persistence |-> st.persistence]

TopicObservation(W, topic) ==
    [topic_id |-> topic.id, seeds |-> topic.seeds,
     centroid_long |-> topic.centroid_long, weight_sum |-> topic.weight_sum,
     centroid_short_ema |-> topic.centroid_short_ema,
     clusters |-> [j \in 1..Len(list_states(W, topic.id)) |->
                      ClusterObservation(list_states(W, topic.id)[j])]]

\* The loop of observe_on_tick over the topics: reading topic.weight_sum of
\* a Topic without that attribute raises AttributeError, after the
\* observations of the topics before it have been appended.
RECURSIVE ObserveFrom(_, _, _)
ObserveFrom(W, ids, obs) ==
    IF ids = <<>> THEN [obs EXCEPT !.tick = obs.tick + 1, !.status = "ok"]
    ELSE LET topic == W.topics[Head(ids)]
         IN  IF topic.weight_sum = <<>>
             THEN [obs EXCEPT !.status = "AttributeError"]
             ELSE ObserveFrom(W, Tail(ids),
                      [obs EXCEPT !.observations =
                          Append(obs.observations,
                                 [tick |-> obs.tick,
                                  topic |-> TopicObservation(W, topic)])])

\* observe_on_tick.  InMemoryStorage defines no get_all_topics: with it the
\* first statement raises (listed = FALSE); with a storage that lists its
\* topics (listed = TRUE) the loop runs.
observe_on_tick(W, listed) ==
    LET obs == IF listed
               THEN ObserveFrom(W, InOrder(DOMAIN W.topics), W.observer)
               ELSE [W.observer EXCEPT !.status = "AttributeError"]
    IN  [W EXCEPT !.observer = [obs EXCEPT !.calls = W.observer.calls + 1]]

\* The observer is called on demand, between ticks.
Observe ==
    /\ \A p \in Procs : proc[p].pc = "idle"
    /\ observer.calls < MaxObserve
    /\ \E listed \in BOOLEAN : Becomes(observe_on_tick(World, listed))

NextObs ==
    \/ Next
    \/ Observe

SpecObs == Init /\ [][NextObs]_vars

Observes == observer'.calls = observer.calls + 1

\* C32: observe_on_tick changes nothing in storage; each call appends one
\* observation per stored topic, with all the candidate states of that
\* topic, and then advances the observer's tick by one.
C32_ObserverReadsAllAndCounts ==
    [][ Observes =>
          /\ StorageUnchanged
          /\ observer'.tick = observer.tick + 1
          /\ Len(observer'.observations)
                = Len(observer.observations) + Cardinality(DOMAIN topics)
          /\ \A t \in DOMAIN topics :
                \E i \in 1..Len(observer'.observations) :
                    /\ i > Len(observer.observations)
                    /\ observer'.observations[i].tick = observer.tick
                    /\ observer'.observations[i].topic.topic_id = t
                    /\ Len(observer'.observations[i].topic.clusters)
                          = Len(StatesOf(cluster_state, t)) ]_vars

\* The persistence the state had when the tick of the thread started (0 for
\* a state the tick created).
PersistenceAtStart(p, cid) ==
    LET states == proc[p].start[1].states
    IN  IF \E j \in 1..Len(states) : states[j].cluster_id = cid
        THEN (CHOOSE st \in {states[j] : j \in 1..Len(states)} :
                 st.cluster_id = cid).persistence
        ELSE 0

\* C33: within one tick a candidate state is advanced by at most one
\* snapshot: after every smoothing step of the tick its persistence is at
\* most one more than it was when the tick started.
C33_OneAdvancePerTick ==
    [][ \A p \in Procs : Smooths(p) =>
          proc'[p].state[1].persistence
              <= PersistenceAtStart(p, proc'[p].state[1].cluster_id) + 1 ]_vars

\* The children the topic's tick number k promoted.
PromotedIn(t, k) ==
    {c \in DOMAIN topics : Len(c) = 3 /\ c[1] = t[1] /\ c[2] = k}

\* C34: the tick that follows a promotion does not promote the same cluster
\* again: a tick promotes no snapshot whose centroid is the centroid the
\* previous tick of the topic built a child from.
C34_NoRepromotionInFollowingTick ==
    [][ \A p \in Procs : Promotes(p) =>
          \A c \in PromotedIn(proc[p].topic, proc[p].tick_no - 1) :
              topics[c].centroid_long
                  # proc[p].snaps[proc[p].i].centroid_now ]_vars

\* A TopicPolicy(persistence_min = pm), by identity.
PolicyWithMin(pm) == <<"persistence_min", pm>>
MinMenu == {0, 1, 2}

\* The smoothing step the thread is about to take, with the topic's policy
\* replaced by one of the given persistence_min: what update returns.
SmoothUnder(p, pm) ==
    LET topic == [topics[proc[p].topic] EXCEPT !.policy = PolicyWithMin(pm)]
        snap == proc[p].snaps[proc[p].i]
        r == update(World, topic, snap, SmoothedFrom(p))
    IN  [topic |-> topic, snap |-> snap, state |-> r[2]]

\* C35: a tick promotes only on a snapshot for which meets was true in the
\* smoothing step just before, whatever persistence_min is, 0 included: a
\* state whose persistence was just reset to 0 is not ready, and the state
\* a tick promotes has qualified in that tick.
C35_PromotesOnlyWhenMeets ==
    \A p \in Procs :
        /\ proc[p].pc = "smooth" =>
              \A pm \in MinMenu :
                  LET u == SmoothUnder(p, pm)
                  IN  ready(u.topic, u.snap, u.state) =>
                          /\ meets(PolicyObj(u.topic.policy), u.snap, u.state)
                          /\ u.state.persistence >= 1
        /\ proc[p].pc = "promote" =>
              /\ proc[p].state[1].cluster_id \in proc[p].qualified
              /\ proc[p].state[1].persistence >= 1
\* A state that had qualified is about to be smoothed by a snapshot that
\* resets it, under persistence_min = 0.
C35_Witness ==
    \E p \in Procs :
        /\ proc[p].pc = "smooth"
        /\ SmoothedFrom(p).persistence >= 1
        /\ SmoothUnder(p, 0).state.persistence = 0
        /\ ~ready(SmoothUnder(p, 0).topic, SmoothUnder(p, 0).snap,
                  SmoothUnder(p, 0).state)

\* C36: with ticks of a topic run one after the other from an empty topic,
\* no two documents of the topic's log have the same hash, and whenever no
\* tick of the topic is running the hashes of the logged documents are
\* exactly the topic's seen hashes.
C36_LogHasEachHashOnce ==
    \A t \in Roots :
        /\ \A i, j \in 1..Len(docs_by_topic[t]) :
              docs_by_topic[t][i].hash = docs_by_topic[t][j].hash => i = j
        /\ ~Busy(World, t) => Hashes(docs_by_topic[t]) = seen_hashes[t]
\* A first tick was fed three pages with one hash and logged one document;
\* a second tick, fed that hash again and a new one, has returned after
\* logging the new one only.
C36_Witness ==
    \E p \in Procs :
        /\ proc[p].pc = "idle"
        /\ driver[p].fed = <<<<PX1, PX2, PX3>>, <<PX1, PY>>>>
        /\ summary[p] # <<>>
        /\ summary[p][1].status = "ok"
        /\ Len(summary[p][1].start.docs) = 1
        /\ summary[p][1].start.seen = {PyHash(PX1.text)}
        /\ summary[p][1].ingested = 1
        /\ Len(docs_by_topic[summary[p][1].topic_id]) = 2

\* ------------------------------------------------- ticks that overlap
\* Two threads, one tick each, both on topic A, and no lock in the driver:
\* Orchestrator.tick itself never checks whether the topic is being ticked.
InitOverlap ==
    InitWith([p \in Procs |-> [left |-> 1, topics |-> {RootA}, fed |-> <<>>]])

TickStartOverlap(p) ==
    \E t \in Roots, feed \in Feeds :
        /\ proc[p].pc = "idle"
        /\ driver[p].left > 0
        /\ t \in driver[p].topics
        /\ Becomes(DoTickStart(World, p, t, feed))

\* The clusterer finds the cluster around [1, 0] or nothing.
ClusterOverlap(p) ==
    /\ proc[p].pc = "cluster"
    /\ \E snaps \in ClusterOutputs(topics[proc[p].topic], proc[p].window) :
          /\ \A i \in 1..Len(snaps) :
                /\ snaps[i].centroid_now = SQ.centroid_now
                /\ snaps[i].cohesion_now = SQ.cohesion_now
          /\ Becomes(DoCluster(World, p, snaps))

NextOverlap ==
    \/ \E p \in Procs : TickStartOverlap(p)
    \/ \E p \in Procs : Apply(p)
    \/ \E p \in Procs : SaveDocs(p)
    \/ \E p \in Procs : MarkSeen(p)
    \/ \E p \in Procs : SaveTopic(p)
    \/ \E p \in Procs : RecentDocs(p)
    \/ \E p \in Procs : RecentDocsFails(p)
    \/ \E p \in Procs : ClusterOverlap(p)
    \/ \E p \in Procs : ClusterFails(p)
    \/ \E p \in Procs : MatchOrCreate(p)
    \/ \E p \in Procs : SmootherUpdate(p)
    \/ \E p \in Procs : Promote(p)
    \/ \E p \in Procs : DeleteState(p)
    \/ \E p \in Procs : ExpireStale(p)
    \/ Elapse

SpecOverlap == InitOverlap /\ [][NextOverlap]_vars

\* The thread's tick has appended its documents to the log.
HasSaved(p) == proc[p].pc \notin {"idle", "apply", "save_docs"}
TimesLogged(t, h) ==
    Cardinality({i \in 1..Len(docs_by_topic[t]) : docs_by_topic[t][i].hash = h})

\* C37: the core does not protect a topic against overlapping ticks: when
\* two ticks of one topic have both read the seen hashes before either marked
\* its own, each logs the documents it accepted, so a hash both accepted is
\* in the topic's log twice.
C37_OverlappingTicksLogTwice ==
    \A p, q \in Procs :
        (/\ p # q
         /\ HasSaved(p) /\ HasSaved(q)
         /\ proc[p].topic = proc[q].topic) =>
            \A h \in Hashes(proc[p].topK) \cap Hashes(proc[q].topK) :
                TimesLogged(proc[p].topic, h) >= 2
\* Two ticks of topic A overlap, both have logged a document with the same
\* hash, and the log holds it twice.
C37_Witness ==
    \E p, q \in Procs :
        /\ p # q
        /\ HasSaved(p) /\ HasSaved(q)
        /\ proc[p].topic = RootA /\ proc[q].topic = RootA
        /\ \E h \in Hashes(proc[p].topK) \cap Hashes(proc[q].topK) :
              TimesLogged(RootA, h) = 2

\* ------------------------------------------------------ the random key
\* new_key = f"cand_{uuid.uuid4().hex[:8]}" (cluster_matcher.py:42): eight hex
\* characters of a random uuid, taken without a look at the keys in storage.
\* The draw is any key of that space: one that no state has yet, or one that
\* a stored state already has.
uuid4_hex8(W, loc) ==
    {CandKey(loc.topic, loc.tick_no, loc.i)}
        \cup {W.cluster_state[j].st.cluster_id : j \in 1..Len(W.cluster_state)}

DoMatchKey(W, p, new_key) ==
    LET loc == W.proc[p]
        r == match_or_create(W, W.topics[loc.topic], loc.snaps[loc.i], new_key)
    IN  [r[1] EXCEPT !.proc[p].state = <<r[2]>>, !.proc[p].matched = <<r[2]>>,
                     !.proc[p].pc = "smooth"]

MatchOrCreateKey(p) ==
    /\ proc[p].pc = "match"
    /\ \E new_key \in uuid4_hex8(World, proc[p]) :
          Becomes(DoMatchKey(World, p, new_key))

NextKeys ==
    \/ \E p \in Procs : TickStart(p)
    \/ \E p \in Procs : Apply(p)
    \/ \E p \in Procs : SaveDocs(p)
    \/ \E p \in Procs : MarkSeen(p)
    \/ \E p \in Procs : SaveTopic(p)
    \/ \E p \in Procs : RecentDocs(p)
    \/ \E p \in Procs : RecentDocsFails(p)
    \/ \E p \in Procs : Cluster(p)
    \/ \E p \in Procs : ClusterFails(p)
    \/ \E p \in Procs : MatchOrCreateKey(p)
    \/ \E p \in Procs : SmootherUpdate(p)
    \/ \E p \in Procs : Promote(p)
    \/ \E p \in Procs : DeleteState(p)
    \/ \E p \in Procs : ExpireStale(p)
    \/ Elapse

SpecKeys == Init /\ [][NextKeys]_vars

\* match_or_create returned a state it made (a stored state that can be
\* matched has a centroid).
Creates(p) == Matches(p) /\ proc'[p].matched[1].centroid_ema = <<>>

\* C38: a state created by match_or_create replaces no stored state: its id
\* differs from the id of every state stored for the topic, and the upsert
\* that persists it keeps every entry of storage as it was and adds one.
C38_CreatedStateReplacesNone ==
    [][ \A p \in Procs : Creates(p) =>
          LET m == proc'[p].matched[1]
          IN  /\ m.cluster_id \notin StateIds(list_states(World, proc[p].topic))
              /\ Len(cluster_state') = Len(cluster_state) + 1
              /\ SubSeq(cluster_state', 1, Len(cluster_state)) = cluster_state
    ]_vars

\* The snapshot of the step and two more with the same documents: one whose
\* cohesion is above the bound while beta times it is below, one whose
\* separation passes the bound unsmoothed and fails it smoothed.
FirstSnaps(snap) ==
    {snap, [snap EXCEPT !.cohesion_now = <<3, 4>>],
           [snap EXCEPT !.separation_now = <<2, 5>>]}

\* What the first smoothing of a new state gives, by the claim's words.
FromZero(beta, policy, snap, new) ==
    /\ new.centroid_ema = snap.centroid_now
    /\ new.cohesion_ema = RMul(beta, snap.cohesion_now)
    /\ new.separation_ema = RMul(beta, snap.separation_now)
    /\ new.persistence > 0 =>
          /\ RGe(RMul(beta, snap.cohesion_now), policy.tau_cohesion)
          /\ RLe(RSub(One, RMul(beta, snap.separation_now)),
                 policy.tau_separation)

\* C39: the first smoothing step of a newly created state makes centroid_ema
\* the snapshot's centroid_now and makes cohesion_ema and separation_ema
\* beta * cohesion_now and beta * separation_now (smoothed from 0, not
\* seeded), so the state qualifies in that step only if beta * cohesion_now
\* >= tau_cohesion and 1 - beta * separation_now <= tau_separation.
C39_FirstSmoothingStartsFromZero ==
    [][ \A p \in Procs :
          (Smooths(p) /\ SmoothedFrom(p).centroid_ema = <<>>) =>
              LET topic == topics[proc[p].topic]
                  policy == PolicyOf(Heap, topic)
                  snap == proc[p].snaps[proc[p].i]
              IN  /\ FromZero(SmootherBeta, policy, snap, proc'[p].state[1])
                  /\ HasState(World', proc[p].topic,
                              proc'[p].state[1].cluster_id)
                  /\ load_cluster_state(World', proc[p].topic,
                                        proc'[p].state[1].cluster_id)
                         = proc'[p].state[1]
                  /\ \A pr \in FirstSnaps(snap) :
                        FromZero(SmootherBeta, policy, pr,
                                 update(World, topic, pr, SmoothedFrom(p))[2])
    ]_vars

\* A new state has qualified in its first smoothing step, on a snapshot
\* that would not have qualified it with a cohesion of 3/4 although 3/4
\* is above the bound.
C39_Witness ==
    \E p \in Procs :
        /\ proc[p].pc = "expire"
        /\ Len(proc[p].snaps) = 1
        /\ proc[p].matched[1].centroid_ema = <<>>
        /\ proc[p].state[1].persistence = 1
        /\ proc[p].state[1].cohesion_ema = Half
        /\ LET topic == topics[proc[p].topic]
               pr == [proc[p].snaps[1] EXCEPT !.cohesion_now = <<3, 4>>]
           IN  /\ RGe(pr.cohesion_now, PolicyOf(Heap, topic).tau_cohesion)
               /\ update(World, topic, pr, proc[p].matched[1])[2].persistence = 0

====
